---- MODULE Spec2Model ----
(***************************************************************************)
(* metapyle: the range cache (src/metapyle/cache.py) and the fetch         *)
(* orchestration of the client (src/metapyle/client.py).                   *)
(*                                                                         *)
(* Dates are ISO "YYYY-MM-DD" strings in the code.  SQLite compares them   *)
(* as TEXT, pandas compares them as Timestamps; on ISO dates both orders   *)
(* are the calendar order, so a date is modelled by its day number.        *)
(* A DataFrame is a record: the timezone of its DatetimeIndex, the index's *)
(* freq attribute, the set of days of its index and its columns; a column  *)
(* is a name with a value tag standing for the numbers it holds.           *)
(***************************************************************************)
EXTENDS Integers, Sequences, FiniteSets, TLC

(* Python None, SQL NULL *)
None == "None"

(* ---- bounds ---- *)
MaxDay == 2
MaxEntries == 2

Days == 1..MaxDay
Ranges == {rg \in Days \X Days : rg[1] <= rg[2]}
Vals == {1, 2}

(* ------------------------------------------------------------------ *)
(* pandas objects                                                      *)
(* ------------------------------------------------------------------ *)

NoFrame == [kind |-> "None"]

DataFrame(tz, freq, index, columns) ==
    [kind |-> "DataFrame", tz |-> tz, freq |-> freq, index |-> index, columns |-> columns]

(* pd.Timestamp("YYYY-MM-DD"): a timezone-naive timestamp *)
Timestamp(date) == [day |-> date, tz |-> "naive"]

(* DataFrame.to_parquet(): the blob keeps index, timezone and columns; the *)
(* freq attribute of the index is not part of the parquet file.            *)
to_parquet(df) ==
    [magic |-> "PAR1", tz |-> df.tz, index |-> df.index, columns |-> df.columns]

(* pd.read_parquet(): raises on bytes that are no parquet file *)
read_parquet(blob) ==
    IF blob.magic = "PAR1"
    THEN DataFrame(blob.tz, None, blob.index, blob.columns)
    ELSE [kind |-> "raise"]

(* df[(df.index >= start_dt) & (df.index <= end_dt)].  pandas refuses to   *)
(* order a timezone-aware DatetimeIndex against a timezone-naive Timestamp *)
(* (TypeError), so the mask exists only for a naive index.                 *)
FilterRange(df, start_dt, end_dt) ==
    IF df.tz # start_dt.tz \/ df.tz # end_dt.tz
    THEN [kind |-> "raise"]
    ELSE [df EXCEPT !.index = {d \in df.index : d >= start_dt.day /\ d <= end_dt.day},
                    !.freq = None]

(* the rows of a frame: what it holds on each day, in each column *)
RowsOf(df) == {<<d, df.columns[i].val>> : d \in df.index, i \in DOMAIN df.columns}

(* ------------------------------------------------------------------ *)
(* SQLite                                                              *)
(* ------------------------------------------------------------------ *)

(* col = ? on a nullable TEXT column: never true when either side is NULL *)
(* (start_date and end_date are NOT NULL and compared directly)            *)
SqlEq(col, param) == col # None /\ param # None /\ col = param

(* col IS ? : NULL-safe equality *)
SqlIs(col, param) == col = param

(* a row of cache_entries joined with its cache_data row on entry_id *)
EntryRow(source, symbol, field, path, start_date, end_date, blob) ==
    [source |-> source, symbol |-> symbol, field |-> field, path |-> path,
     start_date |-> start_date, end_date |-> end_date, data |-> blob]

(* the payload column of a cache_entries row that has no cache_data row    *)
NoBlob == [magic |-> "none"]

(* e JOIN cache_data d ON e.id = d.entry_id: the row has a cache_data row  *)
HasData(r) == r.data.magic # "none"

(* UNIQUE(source, symbol, field, path, start_date, end_date): SQLite holds *)
(* NULLs distinct, so only fully non-NULL keys can collide.                *)
UniqueViolation(entries, row) ==
    \E r \in entries :
        /\ SqlEq(r.source, row.source) /\ SqlEq(r.symbol, row.symbol)
        /\ SqlEq(r.field, row.field) /\ SqlEq(r.path, row.path)
        /\ r.start_date = row.start_date /\ r.end_date = row.end_date

(* ------------------------------------------------------------------ *)
(* Cache                                                               *)
(* ------------------------------------------------------------------ *)

VARIABLES
    enabled,        \* Cache._enabled
    conn,           \* Cache._conn: "open", or None once closed / when disabled
    cache_entries,  \* the rows of cache_entries, each with its cache_data blob
    ret,            \* the last call: its arguments and what it returned
    callers,        \* the callers that run Client.get at the same time: where
                    \* each one is in its call, what it holds, the open
                    \* transaction of its connection
    registry        \* a SourceRegistry: _sources and _instances

vars == <<enabled, conn, cache_entries, ret, callers, registry>>

(* SourceRegistry.__init__: both dicts empty *)
NewRegistry == [sources |-> <<>>, instances |-> <<>>]

(* no caller runs beside the one whose call is the step *)
NoCallers == [mode |-> "none"]

(* DeleteWhere with field = ? and path = ? bound to NULL (a single SELECT  *)
(* for all four combinations): a NULL key component matches no row         *)
DeleteWhereBoundNull(r, source, symbol, field, path, start_date, end_date) ==
    /\ SqlEq(r.source, source)
    /\ SqlEq(r.symbol, symbol)
    /\ SqlEq(r.field, field)
    /\ SqlEq(r.path, path)
    /\ r.start_date = start_date
    /\ r.end_date = end_date

(* DeleteWhere without its conditions on start_date and end_date: every    *)
(* record of the series matches                                            *)
DeleteWhereAnyRange(r, source, symbol, field, path, start_date, end_date) ==
    /\ SqlEq(r.source, source)
    /\ SqlEq(r.symbol, symbol)
    /\ IF field = None THEN r.field = None ELSE SqlEq(r.field, field)
    /\ IF path = None THEN r.path = None ELSE SqlEq(r.path, path)

(* WHERE clause of Cache._delete_entry, one SELECT per NULL combination *)
DeleteWhere(r, source, symbol, field, path, start_date, end_date) ==
    /\ SqlEq(r.source, source)
    /\ SqlEq(r.symbol, symbol)
    /\ IF field = None THEN r.field = None ELSE SqlEq(r.field, field)
    /\ IF path = None THEN r.path = None ELSE SqlEq(r.path, path)
    /\ r.start_date = start_date
    /\ r.end_date = end_date

(* Cache._delete_entry: fetchone() and DELETE of that one id.  The result  *)
(* is the set of tables the call can leave (one per row fetchone may give).*)
delete_entry(entries, source, symbol, field, path, start_date, end_date) ==
    LET found == {r \in entries :
                    DeleteWhere(r, source, symbol, field, path, start_date, end_date)}
    IN  IF found = {} THEN {entries} ELSE {entries \ {r} : r \in found}

(* Cache.put without its two early returns *)
put_unguarded(entries, source, symbol, field, path, start_date, end_date, data) ==
    LET row == EntryRow(source, symbol, field, path, start_date, end_date, to_parquet(data))
    IN  {d \cup {row} : d \in delete_entry(entries, source, symbol, field, path,
                                            start_date, end_date)}

(* Cache.put: the tables the call can leave.  An exception of the INSERT   *)
(* is caught and logged; nothing undoes the DELETE that ran before it.     *)
put(entries, source, symbol, field, path, start_date, end_date, data) ==
    IF ~enabled \/ conn = None
    THEN {entries}
    ELSE LET data_bytes == to_parquet(data)
             row == EntryRow(source, symbol, field, path, start_date, end_date, data_bytes)
         IN  {IF UniqueViolation(d, row) THEN d ELSE d \cup {row} :
                d \in delete_entry(entries, source, symbol, field, path,
                                   start_date, end_date)}

(* GetWhere with the field and path conditions dropped when the argument  *)
(* is None: a NULL argument matches every stored value                     *)
GetWhereNullAny(r, source, symbol, field, path, start_date, end_date) ==
    /\ HasData(r)
    /\ SqlEq(r.source, source)
    /\ SqlEq(r.symbol, symbol)
    /\ IF field = None THEN TRUE ELSE SqlEq(r.field, field)
    /\ IF path = None THEN TRUE ELSE SqlEq(r.path, path)
    /\ r.start_date <= start_date
    /\ r.end_date >= end_date

(* WHERE clause of Cache.get, one SELECT per NULL combination *)
GetWhere(r, source, symbol, field, path, start_date, end_date) ==
    /\ HasData(r)
    /\ SqlEq(r.source, source)
    /\ SqlEq(r.symbol, symbol)
    /\ IF field = None THEN r.field = None ELSE SqlEq(r.field, field)
    /\ IF path = None THEN r.path = None ELSE SqlEq(r.path, path)
    /\ r.start_date <= start_date
    /\ r.end_date >= end_date

(* Cache.get after fetchone() gave row r: deserialize, filter when the     *)
(* requested range differs from the stored one; any exception is a miss.   *)
GetRow(r, start_date, end_date) ==
    LET df == read_parquet(r.data)
    IN  IF df.kind = "raise"
        THEN NoFrame
        ELSE IF start_date # r.start_date \/ end_date # r.end_date
             THEN LET f == FilterRange(df, Timestamp(start_date), Timestamp(end_date))
                  IN  IF f.kind = "raise" THEN NoFrame ELSE f
             ELSE df

(* Cache.get without its two early returns *)
get_unguarded(entries, source, symbol, field, path, start_date, end_date) ==
    LET found == {r \in entries :
                    GetWhere(r, source, symbol, field, path, start_date, end_date)}
    IN  IF found = {} THEN {NoFrame} ELSE {GetRow(r, start_date, end_date) : r \in found}

(* Cache.get: the values the call can return.  The SELECT has no ORDER BY, *)
(* so fetchone() may give any of the matching rows.                        *)
get(entries, source, symbol, field, path, start_date, end_date) ==
    IF ~enabled \/ conn = None
    THEN {NoFrame}
    ELSE LET found == {r \in entries :
                         GetWhere(r, source, symbol, field, path, start_date, end_date)}
         IN  IF found = {} THEN {NoFrame} ELSE {GetRow(r, start_date, end_date) : r \in found}

(* Cache.clear whose restricted DELETE reaches only the rows with a NULL   *)
(* field and a NULL path                                                   *)
clear_null_keys_only(entries, source, symbol) ==
    IF ~enabled \/ conn = None
    THEN entries
    ELSE IF source # None /\ symbol # None
         THEN {r \in entries : ~(/\ SqlEq(r.source, source) /\ SqlEq(r.symbol, symbol)
                                 /\ r.field = None /\ r.path = None)}
         ELSE {}

(* Cache.clear: only with both arguments is the DELETE restricted *)
clear(entries, source, symbol) ==
    IF ~enabled \/ conn = None
    THEN entries
    ELSE IF source # None /\ symbol # None
         THEN {r \in entries : ~(SqlEq(r.source, source) /\ SqlEq(r.symbol, symbol))}
         ELSE {}

(* ClearSymbolWhere with field = ? and path = ?: a NULL argument matches  *)
(* no row                                                                  *)
ClearSymbolWhereEq(r, source, symbol, field, path) ==
    /\ SqlEq(r.source, source)
    /\ SqlEq(r.symbol, symbol)
    /\ SqlEq(r.field, field)
    /\ SqlEq(r.path, path)

(* WHERE clause of both DELETEs of Cache.clear_symbol *)
ClearSymbolWhere(r, source, symbol, field, path) ==
    /\ SqlEq(r.source, source)
    /\ SqlEq(r.symbol, symbol)
    /\ (SqlIs(r.field, field) \/ (r.field = None /\ field = None))
    /\ (SqlIs(r.path, path) \/ (r.path = None /\ path = None))

(* Cache.clear_symbol: <<table left, rowcount returned>> *)
clear_symbol(entries, source, symbol, field, path) ==
    IF ~enabled \/ conn = None
    THEN <<entries, 0>>
    ELSE LET gone == {r \in entries : ClearSymbolWhere(r, source, symbol, field, path)}
         IN  <<entries \ gone, Cardinality(gone)>>

(* ---- the calls a direct user of Cache makes ---- *)

(* (source, symbol, field, path) of the calls: every NULL combination of   *)
(* field and path of one series, and a series of another source            *)
CacheSeries ==
    {<<"bloomberg", "SPX", None, None>>, <<"bloomberg", "SPX", "PX", None>>,
     <<"bloomberg", "SPX", None, "/f">>, <<"bloomberg", "SPX", "PX", "/f">>,
     <<"macrobond", "gdp", None, None>>}

(* ranges records are stored under; get asks for every range *)
PutRanges == {<<1, 1>>, <<1, MaxDay>>, <<MaxDay, MaxDay>>}

(* frames handed to put: a naive index with a row on every day, and a UTC  *)
(* index (what the sources of this repository return) with the rows of the *)
(* range                                                                   *)
PutFrames(rg) ==
    {DataFrame("naive", "D", Days, <<[name |-> "value", val |-> 1]>>),
     DataFrame("UTC", "D", rg[1]..rg[2], <<[name |-> "value", val |-> 2]>>)}

Init ==
    /\ enabled = TRUE
    /\ conn = "open"
    /\ cache_entries = {}
    /\ ret = [op |-> "init"]
    /\ callers = NoCallers
    /\ registry = NewRegistry

Put ==
    \E k \in CacheSeries, rg \in PutRanges :
      \E df \in PutFrames(rg) :
        \E after \in put(cache_entries, k[1], k[2], k[3], k[4], rg[1], rg[2], df) :
            /\ Cardinality(after) <= MaxEntries
            /\ cache_entries' = after
            /\ ret' = [op |-> "put", source |-> k[1], symbol |-> k[2], field |-> k[3],
                       path |-> k[4], start_date |-> rg[1], end_date |-> rg[2],
                       data |-> df,
                       overwrote |-> \E r \in cache_entries :
                            DeleteWhere(r, k[1], k[2], k[3], k[4], rg[1], rg[2])]
            /\ UNCHANGED <<registry, callers, enabled, conn>>

Get ==
    \E k \in CacheSeries, rg \in Ranges :
      \E res \in get(cache_entries, k[1], k[2], k[3], k[4], rg[1], rg[2]) :
        /\ ret' = [op |-> "get", source |-> k[1], symbol |-> k[2], field |-> k[3],
                   path |-> k[4], start_date |-> rg[1], end_date |-> rg[2],
                   result |-> res]
        /\ UNCHANGED <<registry, callers, enabled, conn, cache_entries>>

(* the arguments of clear: absent, or the source and symbol of a series *)
ClearSources == {None, "bloomberg"}

ClearSymbols == {None, "SPX"}

Clear ==
    \E source \in ClearSources, symbol \in ClearSymbols :
        /\ cache_entries' = clear(cache_entries, source, symbol)
        /\ ret' = [op |-> "clear", source |-> source, symbol |-> symbol,
                   removed |-> cache_entries \ clear(cache_entries, source, symbol)]
        /\ UNCHANGED <<registry, callers, enabled, conn>>

ClearSymbol ==
    \E k \in CacheSeries :
      LET res == clear_symbol(cache_entries, k[1], k[2], k[3], k[4])
      IN  /\ cache_entries' = res[1]
          /\ ret' = [op |-> "clear_symbol", source |-> k[1], symbol |-> k[2],
                     field |-> k[3], path |-> k[4], result |-> res[2]]
          /\ UNCHANGED <<registry, callers, enabled, conn>>

Next == Put \/ Get \/ Clear \/ ClearSymbol

Spec == Init /\ [][Next]_vars

(* ------------------------------------------------------------------ *)
(* Range cache: claims                                                 *)
(* ------------------------------------------------------------------ *)

(* CacheKey equality on (provider, symbol, field, path): every component   *)
(* equal, null equal to null only                                          *)
SameSeries(r, c) ==
    /\ r.source = c.source /\ r.symbol = c.symbol
    /\ r.field = c.field /\ r.path = c.path

SameKey(r, c) ==
    SameSeries(r, c) /\ r.start_date = c.start_date /\ r.end_date = c.end_date

Contains(r, c) == r.start_date <= c.start_date /\ r.end_date >= c.end_date

Intact(r) == read_parquet(r.data).kind = "DataFrame"

IsFrame(x) == x.kind = "DataFrame"

(* C1: get returns a table if and only if some stored intact record has    *)
(* the same (provider, symbol, field, path) and a stored range containing  *)
(* the requested one; in every other case it returns absent.               *)
C1_GetIffContained ==
    ret.op = "get" =>
        (IsFrame(ret.result) <=>
            \E r \in cache_entries : SameSeries(r, ret) /\ Contains(r, ret) /\ Intact(r))

(* C2: on every cache hit get returns exactly the stored rows whose date   *)
(* lies within the requested range, also when the stored range equals the *)
(* requested one: no returned row lies outside the request.                *)
C2_HitRowsWithinRequest ==
    (ret.op = "get" /\ IsFrame(ret.result)) =>
        /\ \A d \in ret.result.index : ret.start_date <= d /\ d <= ret.end_date
        /\ \E r \in cache_entries :
              /\ SameSeries(r, ret) /\ Contains(r, ret)
              /\ RowsOf(ret.result) =
                    {row \in RowsOf(read_parquet(r.data)) :
                        ret.start_date <= row[1] /\ row[1] <= ret.end_date}

(* C3: a get with a null field never matches a record whose field is a     *)
(* value, a get with a field value never matches a record whose field is   *)
(* null, likewise for path, and the overwrite lookup of put leaves every   *)
(* record that differs in field or path in place.                          *)
C3_GetNeedsSameNulls ==
    (ret.op = "get" /\ IsFrame(ret.result)) =>
        \E r \in cache_entries :
            /\ r.source = ret.source /\ r.symbol = ret.symbol /\ Contains(r, ret)
            /\ r.field = ret.field /\ r.path = ret.path

C3_PutKeepsOtherNulls ==
    ret'.op = "put" =>
        \A r \in cache_entries :
            (r.field # ret'.field \/ r.path # ret'.path) => r \in cache_entries'

C3_NullKeyDiscrimination == [](C3_GetNeedsSameNulls) /\ [][C3_PutKeepsOtherNulls]_vars

(* C3 happens: a get with a null field (or path) came back absent although *)
(* a record of the same series and a containing range is stored under a    *)
(* field (or path) value; and the converse.                                *)
C3_Witness ==
    /\ ret.op = "get" /\ ret.field = None /\ ~IsFrame(ret.result)
    /\ \E r \in cache_entries :
          /\ r.source = ret.source /\ r.symbol = ret.symbol /\ r.path = ret.path
          /\ r.field # None /\ Contains(r, ret) /\ read_parquet(r.data).tz = "naive"

(* C4: the store holds at most one record per six-component key, and after *)
(* a put exactly one record is under the key of the put, with the payload  *)
(* of that put.                                                            *)
C4_OneRecordPerKey ==
    /\ \A r1, r2 \in cache_entries : SameKey(r1, r2) => r1 = r2
    /\ ret.op = "put" =>
          /\ Cardinality({r \in cache_entries : SameKey(r, ret)}) = 1
          /\ \A r \in cache_entries :
                SameKey(r, ret) => RowsOf(read_parquet(r.data)) = RowsOf(ret.data)
                                   /\ read_parquet(r.data).tz = ret.data.tz

(* C4 happens: a put replaced the record of its key (a null field among    *)
(* the key's components) while another record stayed.                      *)
C4_Witness ==
    /\ ret.op = "put" /\ ret.overwrote /\ ret.field = None
    /\ Cardinality(cache_entries) = 2

(* ------------------------------------------------------------------ *)
(* Catalog, requests and sources                                       *)
(* ------------------------------------------------------------------ *)

CatalogEntry(my_name, source, symbol, field, path) ==
    [my_name |-> my_name, source |-> source, symbol |-> symbol, field |-> field,
     path |-> path, params |-> None]

(* the catalog of the session: two fields of one Bloomberg symbol and two  *)
(* Macrobond series without a field                                        *)
catalog ==
    {CatalogEntry("spx", "bloomberg", "SPX Index", "PX_LAST", None),
     CatalogEntry("spx_open", "bloomberg", "SPX Index", "PX_OPEN", None),
     CatalogEntry("gdp", "macrobond", "usgdp", None, None),
     CatalogEntry("cpi", "macrobond", "uscpi", None, None)}

(* name in self._entries *)
Known(name) == \E e \in catalog : e.my_name = name

(* Catalog.get for a known name *)
CatalogGet(name) == CHOOSE e \in catalog : e.my_name = name

(* entries = [self._catalog.get(name) for name in names] with every name   *)
(* skipped that the catalog does not know                                  *)
ResolveKnownEntries(names) ==
    LET known == SelectSeq(names, Known)
    IN  [raised |-> FALSE, entries |-> [i \in DOMAIN known |-> CatalogGet(known[i])]]

(* entries = [self._catalog.get(name) for name in names]: the first        *)
(* unknown name raises SymbolNotFoundError out of Client.get               *)
ResolveEntries(names) ==
    IF \E i \in DOMAIN names : ~Known(names[i])
    THEN [raised |-> TRUE, entries |-> <<>>]
    ELSE [raised |-> FALSE, entries |-> [i \in DOMAIN names |-> CatalogGet(names[i])]]

FetchRequest(e) ==
    [symbol |-> e.symbol, field |-> e.field, path |-> e.path, params |-> e.params]

make_column_name(symbol, field) ==
    IF field # None THEN symbol \o "::" \o field ELSE symbol

(* str.lower() on the column names that occur *)
str_lower(s) ==
    CASE s = "SPX Index" -> "spx index"
      [] s = "SPX Index::PX_LAST" -> "spx index::px_last"
      [] s = "spx index::PX_LAST" -> "spx index::px_last"
      [] s = "SPX Index::PX_OPEN" -> "spx index::px_open"
      [] s = "USGDP" -> "usgdp"
      [] s = "USCPI" -> "uscpi"
      [] OTHER -> s

(* the source names in descending string order *)
SourceOrderDescending == <<"macrobond", "localfile", "gsquant", "bloomberg">>

(* sorted(..., key=lambda e: e.source): the registered source names in     *)
(* ascending string order                                                  *)
SourceOrder == <<"bloomberg", "gsquant", "localfile", "macrobond">>

(* the timezone of the index a source returns: Macrobond localizes to UTC, *)
(* Bloomberg hands on the naive index of bdh                               *)
SourceTz(source) == IF source = "macrobond" THEN "UTC" ELSE "naive"

(* the case in which a provider spells a symbol in its response            *)
(* (series.primary_name)                                                   *)
PrimaryName(symbol) ==
    CASE symbol = "usgdp" -> "USGDP"
      [] symbol = "uscpi" -> "USCPI"
      [] symbol = "SPX Index" -> "spx index"
      [] OTHER -> symbol

(* the columns a response can hold for one request, by naming style *)
ColumnsOf(source, req, style) ==
    LET composite == make_column_name(req.symbol, req.field)
    IN  CASE style = "native" ->
                IF source = "macrobond" THEN <<req.symbol>> ELSE <<composite>>
          [] style = "composite" -> <<composite>>
          [] style = "symbol" -> <<req.symbol>>
          [] style = "case" -> <<PrimaryName(req.symbol)>>
          [] style = "composite_case" ->
                <<make_column_name(PrimaryName(req.symbol), req.field)>>
          [] style = "short" ->
                IF source = "macrobond" THEN <<req.symbol>> ELSE <<composite>>
          [] style = "both" ->
                IF composite = req.symbol THEN <<req.symbol>> ELSE <<req.symbol, composite>>
          [] OTHER -> <<>>

(* the numbers a provider holds for a column: the field series of a symbol *)
(* differs from its default series                                         *)
SourceValue(col) ==
    IF \E e \in catalog : e.field # None /\ col = make_column_name(e.symbol, e.field)
    THEN 2 ELSE 1

RECURSIVE Flatten(_)
Flatten(seqs) == IF seqs = <<>> THEN <<>> ELSE Head(seqs) \o Flatten(Tail(seqs))

(* the days of a response: every day of the range, or, for a provider that *)
(* holds the series only up to the first day, that day ("short")           *)
ResponseDays(start, end, styles) ==
    IF \E i \in DOMAIN styles : styles[i] = "short" THEN {start} ELSE start..end

(* BaseSource.fetch(requests, start, end): the responses the source can    *)
(* give, a raised FetchError or one table with rows of the range and the   *)
(* columns of each request in one of the styles of menu                    *)
fetch(source, requests, start, end, menu) ==
    {[kind |-> "raise", error |-> "FetchError"]} \cup
    {DataFrame(SourceTz(source), "D", ResponseDays(start, end, styles),
               LET names == Flatten([i \in DOMAIN requests |->
                                        ColumnsOf(source, requests[i], styles[i])])
               IN  [j \in DOMAIN names |-> [name |-> names[j], val |-> SourceValue(names[j])]]) :
        styles \in [DOMAIN requests -> menu]}

(* result_df.columns *)
ColumnNames(df) == {df.columns[j].name : j \in DOMAIN df.columns}

(* result_df[[col_name]] *)
SelectColumn(df, col_name) ==
    [df EXCEPT !.columns = SelectSeq(df.columns, LAMBDA c : c.name = col_name)]

(* normalize_dataframe: the index becomes a UTC DatetimeIndex *)
normalize_dataframe(df) == [df EXCEPT !.tz = "UTC"]

(* ------------------------------------------------------------------ *)
(* pandas: resample, ffill, infer_freq                                 *)
(* ------------------------------------------------------------------ *)
(* A single-column table is a function from its days to its values;    *)
(* NaN is the missing value.  The calendar has periods of PeriodLen    *)
(* days: period k holds the days (k-1)*PeriodLen+1 .. k*PeriodLen.     *)

NaN == 0

PeriodLen == 2

SetMax(S) == CHOOSE x \in S : \A y \in S : y <= x

SetMin(S) == CHOOSE x \in S : \A y \in S : x <= y

(* the frequency strings of the calls: daily, period end (as ME, QE, YE),  *)
(* period start (as MS, QS, YS), and a string pandas does not know         *)
Frequencies == {"D", "ME", "MS", "bogus"}

(* pandas accepts the frequency string *)
ValidFrequency(f) == f \in {"D", "ME", "MS"}

(* the bin of a day *)
PeriodOf(d, f) == IF f = "D" THEN d ELSE ((d - 1) \div PeriodLen) + 1

(* the label of the bin after its own last day *)
LabelAfterBin(k, f) == IF f = "D" THEN k + 1 ELSE k * PeriodLen + 1

(* the label of a bin: the day itself, the last day of the period, the     *)
(* first day of the period                                                 *)
Label(k, f) ==
    CASE f = "D" -> k
      [] f = "ME" -> k * PeriodLen
      [] OTHER -> (k - 1) * PeriodLen + 1

(* the first non-missing value of the rows *)
first_value(t, rows) ==
    LET obs == {d \in rows : t[d] # NaN}
    IN  IF obs = {} THEN NaN ELSE t[SetMin(obs)]

(* .last() of a bin: the last non-missing value of its rows, NaN if none *)
last_value(t, rows) ==
    LET obs == {d \in rows : t[d] # NaN}
    IN  IF obs = {} THEN NaN ELSE t[SetMax(obs)]

(* df.resample(f).last(): a row for every bin from the bin of the first    *)
(* row to the bin of the last row                                          *)
resample_last(t, f) ==
    IF DOMAIN t = {}
    THEN t
    ELSE LET lo == PeriodOf(SetMin(DOMAIN t), f)
             hi == PeriodOf(SetMax(DOMAIN t), f)
             bin(l) == CHOOSE k \in lo..hi : Label(k, f) = l
         IN  [l \in {Label(k, f) : k \in lo..hi} |->
                 last_value(t, {d \in DOMAIN t : PeriodOf(d, f) = bin(l)})]

(* .ffill(): a missing value takes the last value before it *)
ffill(t) == [d \in DOMAIN t |-> last_value(t, {e \in DOMAIN t : e <= d})]

(* align_to_frequency(df, target_frequency) on a single-column table; the  *)
(* ValueError of resample for a frequency pandas does not know             *)
align_to_frequency(t, f) ==
    IF ~ValidFrequency(f)
    THEN [kind |-> "raise", error |-> "ValueError"]
    ELSE [kind |-> "table", table |-> ffill(resample_last(t, f))]

(* align_to_frequency on a frame of the sources: every row of its column   *)
(* holds val                                                               *)
align_frame(df, f) ==
    LET a == align_to_frequency([d \in df.index |-> df.columns[1].val], f)
    IN  IF a.kind = "raise" THEN a
        ELSE [df EXCEPT !.index = DOMAIN a.table, !.freq = f]

(* pd.infer_freq(index): ValueError under three dates; the step of a       *)
(* regular index as a one-element tuple, <<>> for an irregular one         *)
infer_freq(index) ==
    IF Cardinality(index) < 3
    THEN [kind |-> "raise", error |-> "ValueError"]
    ELSE LET next_date(d) == SetMin({e \in index : e > d})
             steps == {next_date(d) - d : d \in index \ {SetMax(index)}}
         IN  [kind |-> "freq",
              freq |-> IF Cardinality(steps) = 1 THEN <<SetMin(steps)>> ELSE <<>>]

(* ------------------------------------------------------------------ *)
(* Client                                                              *)
(* ------------------------------------------------------------------ *)

(* dfs[key] = value on a dict: a new key goes last, a known key keeps its  *)
(* place                                                                   *)
dict_set(dfs, key, value) ==
    IF \E i \in DOMAIN dfs : dfs[i].name = key
    THEN [i \in DOMAIN dfs |-> IF dfs[i].name = key THEN [name |-> key, df |-> value]
                                                     ELSE dfs[i]]
    ELSE Append(dfs, [name |-> key, df |-> value])

dict_keys(dfs) == {dfs[i].name : i \in DOMAIN dfs}

(* lower_to_actual.get(key): in the dict comprehension the last column of  *)
(* a lower-cased name wins                                                 *)
lower_to_actual_get(df, key) ==
    LET js == {j \in DOMAIN df.columns : str_lower(df.columns[j].name) = key}
    IN  IF js = {} THEN None
        ELSE df.columns[CHOOSE j \in js : \A k \in js : k <= j].name

(* the fallback with its first two steps exchanged: the bare symbol is     *)
(* tried before the composite name                                         *)
resolve_column_symbol_first(entry, result_df) ==
    LET cols == ColumnNames(result_df)
        first == make_column_name(entry.symbol, None)
        second == IF first \notin cols
                  THEN make_column_name(entry.symbol, entry.field) ELSE first
        actual == lower_to_actual_get(result_df, str_lower(first))
        third == IF second \notin cols /\ actual # None THEN actual ELSE second
    IN  IF third \in cols THEN third ELSE None

(* the fallback with a last resort: when no step finds a column, the first *)
(* column of the response is taken                                         *)
resolve_column_or_first(entry, result_df) ==
    LET cols == ColumnNames(result_df)
        first == make_column_name(entry.symbol, entry.field)
        second == IF first \notin cols THEN make_column_name(entry.symbol, None) ELSE first
        actual == lower_to_actual_get(result_df, str_lower(second))
        third == IF second \notin cols /\ actual # None THEN actual ELSE second
    IN  IF third \in cols THEN third
        ELSE IF result_df.columns # <<>> THEN result_df.columns[1].name ELSE None

(* the fallback whose last step also looks up the lower-cased symbol::field *)
(* name                                                                     *)
resolve_column_lower_composite(entry, result_df) ==
    LET cols == ColumnNames(result_df)
        first == make_column_name(entry.symbol, entry.field)
        second == IF first \notin cols THEN make_column_name(entry.symbol, None) ELSE first
        bare == lower_to_actual_get(result_df, str_lower(second))
        actual == IF bare # None THEN bare
                  ELSE lower_to_actual_get(result_df, str_lower(first))
        third == IF second \notin cols /\ actual # None THEN actual ELSE second
    IN  IF third \in cols THEN third ELSE None

(* the column of an entry in the table of its batch: symbol::field, then   *)
(* the bare symbol, then the column whose lower-cased name is the lower-   *)
(* cased bare symbol; None when the entry is dropped with a warning        *)
resolve_column(entry, result_df) ==
    LET cols == ColumnNames(result_df)
        first == make_column_name(entry.symbol, entry.field)
        second == IF first \notin cols THEN make_column_name(entry.symbol, None) ELSE first
        actual == lower_to_actual_get(result_df, str_lower(second))
        third == IF second \notin cols /\ actual # None THEN actual ELSE second
    IN  IF third \in cols THEN third ELSE None

(* the probe without the bypass of unified Macrobond entries *)
probe_despite_unified(entries, entry, start, end, use_cache, unified) ==
    IF use_cache
    THEN get(entries, entry.source, entry.symbol, entry.field, entry.path, start, end)
    ELSE {NoFrame}

(* the probe that asks the cache whatever use_cache says *)
probe_despite_use_cache(entries, entry, start, end, use_cache, unified) ==
    IF unified /\ entry.source = "macrobond"
    THEN {NoFrame}
    ELSE get(entries, entry.source, entry.symbol, entry.field, entry.path, start, end)

(* the cache probe of one entry: what `cached` can be; unified Macrobond   *)
(* entries and calls with use_cache off do not ask the cache               *)
probe(entries, entry, start, end, use_cache, unified) ==
    IF unified /\ entry.source = "macrobond"
    THEN {NoFrame}
    ELSE IF use_cache
         THEN get(entries, entry.source, entry.symbol, entry.field, entry.path, start, end)
         ELSE {NoFrame}

(* the loop over entries: every way the probes can come out, as a sequence *)
(* of `cached` values                                                      *)
probe_all(entries, es, start, end, use_cache, unified) ==
    LET all == UNION {probe(entries, es[i], start, end, use_cache, unified) : i \in DOMAIN es}
    IN  {c \in [DOMAIN es -> all] :
            \A i \in DOMAIN es : c[i] \in probe(entries, es[i], start, end, use_cache, unified)}

(* dfs after the probe loop *)
RECURSIVE cached_dfs(_, _, _)
cached_dfs(es, cached, i) ==
    IF i = 0 THEN <<>>
    ELSE LET before == cached_dfs(es, cached, i - 1)
         IN  IF cached[i].kind = "DataFrame"
             THEN dict_set(before, es[i].my_name, cached[i]) ELSE before

(* uncached_entries after the probe loop *)
RECURSIVE uncached_entries(_, _, _)
uncached_entries(es, cached, i) ==
    IF i = 0 THEN <<>>
    ELSE LET before == uncached_entries(es, cached, i - 1)
         IN  IF cached[i].kind = "DataFrame" THEN before ELSE Append(before, es[i])

(* groupby(sorted(uncached_entries, key=source), key=source): one group    *)
(* per source in ascending order, the entries in their order of the list   *)
group_by_source(uncached) ==
    LET group(s) == SelectSeq(uncached, LAMBDA e : e.source = s)
        present == SelectSeq(SourceOrder, LAMBDA s : group(s) # <<>>)
    IN  [g \in DOMAIN present |-> [source |-> present[g], entries |-> group(present[g])]]

(* the loop over the entries of one batch: resolve the column, write it to *)
(* the cache under the requested range, keep it in dfs.  st holds the      *)
(* cache table, dfs and the column picked for each entry so far.           *)
RECURSIVE split_columns(_, _, _, _, _, _, _)
split_columns(st, group, result_df, start, end, use_cache, unified) ==
    IF group = <<>> THEN {st}
    ELSE LET entry == Head(group)
             col_name == resolve_column(entry, result_df)
         IN  IF col_name = None
             THEN split_columns([st EXCEPT !.picked = Append(@, None)], Tail(group),
                                result_df, start, end, use_cache, unified)
             ELSE LET col_df == SelectColumn(result_df, col_name)
                      skip_cache == unified /\ entry.source = "macrobond"
                      written == IF use_cache /\ ~skip_cache
                                 THEN put(st.tables, entry.source, entry.symbol, entry.field,
                                          entry.path, start, end, col_df)
                                 ELSE {st.tables}
                  IN  UNION {split_columns([tables |-> w,
                                            dfs |-> dict_set(st.dfs, entry.my_name, col_df),
                                            picked |-> Append(st.picked, col_name)],
                                           Tail(group), result_df, start, end,
                                           use_cache, unified) : w \in written}

(* the loop over the batches: one fetch per source; a FetchError leaves    *)
(* Client.get at once, after the cache writes of the batches before it     *)
RECURSIVE fetch_groups(_, _, _, _, _, _, _)
fetch_groups(st, groups, start, end, use_cache, unified, menu) ==
    IF groups = <<>> THEN {[tables |-> st.tables, dfs |-> st.dfs, calls |-> st.calls,
                            outcome |-> "ok"]}
    ELSE LET g == Head(groups)
             requests == [i \in DOMAIN g.entries |-> FetchRequest(g.entries[i])]
             call(resp, picked) ==
                 [source |-> g.source,
                  names |-> [i \in DOMAIN g.entries |-> g.entries[i].my_name],
                  requests |-> requests, response |-> resp, picked |-> picked]
         IN  UNION {
               IF result_df.kind = "raise"
               THEN {[tables |-> st.tables, dfs |-> st.dfs,
                      calls |-> Append(st.calls, call(result_df, <<>>)),
                      outcome |-> result_df.error]}
               ELSE UNION {fetch_groups([tables |-> s.tables, dfs |-> s.dfs,
                                         calls |-> Append(st.calls, call(result_df, s.picked))],
                                        Tail(groups), start, end, use_cache, unified, menu) :
                             s \in split_columns([tables |-> st.tables, dfs |-> st.dfs,
                                                  picked |-> <<>>],
                                                 g.entries, result_df, start, end,
                                                 use_cache, unified)} :
               result_df \in fetch(g.source, requests, start, end, menu)}

(* the columns of pd.concat(renamed, axis=1) in the order of dfs *)
unordered_cols(names, columns) == columns

(* ordered_cols = [name for name in names if name in combined.columns] *)
ordered_cols(names, columns) ==
    SelectSeq(names, LAMBDA n : \E j \in DOMAIN columns : columns[j] = n)

(* Client._assemble_dataframe: the first column of every frame renamed to  *)
(* its my_name, the frames normalized and joined on the index, the columns *)
(* picked in the order of names.  A column of the wide table keeps the     *)
(* days on which its series has a row.                                     *)
assemble_dataframe(dfs, names) ==
    IF dfs = <<>> THEN DataFrame("naive", None, {}, <<>>)
    ELSE LET renamed == [i \in DOMAIN dfs |->
                            normalize_dataframe(
                                [dfs[i].df EXCEPT !.columns =
                                    <<[name |-> dfs[i].name, val |-> dfs[i].df.columns[1].val,
                                       days |-> dfs[i].df.index]>>])]
             combined == [i \in DOMAIN renamed |-> renamed[i].columns[1]]
             order == ordered_cols(names, [i \in DOMAIN combined |-> combined[i].name])
         IN  DataFrame("UTC", None, UNION {renamed[i].index : i \in DOMAIN renamed},
                       [k \in DOMAIN order |->
                           combined[CHOOSE i \in DOMAIN combined : combined[i].name = order[k]]])

(* Client._check_index_alignment(dfs): nothing to compare for one series   *)
(* or none; the ValueError of pd.infer_freq leaves the method; a warning   *)
(* when the inferred frequencies differ, or when all are irregular and the *)
(* indexes differ                                                          *)
check_index_alignment(dfs) ==
    IF Len(dfs) <= 1 THEN [kind |-> "quiet"]
    ELSE LET freqs == [i \in DOMAIN dfs |-> infer_freq(dfs[i].df.index)]
             unique_freqs == {freqs[i].freq : i \in DOMAIN dfs}
         IN  IF \E i \in DOMAIN dfs : freqs[i].kind = "raise"
             THEN [kind |-> "raise", error |-> "ValueError"]
             ELSE IF Cardinality(unique_freqs) > 1
                  THEN [kind |-> "warning"]
                  ELSE IF unique_freqs = {<<>>} /\
                          \E i \in DOMAIN dfs : dfs[i].df.index # dfs[1].df.index
                       THEN [kind |-> "warning"]
                       ELSE [kind |-> "quiet"]

(* the end of Client.get once every series is in dfs: each series aligned  *)
(* to frequency when one is given, the diagnostic pass when none is, then  *)
(* the wide table                                                          *)
align_check_assemble(dfs, names, frequency) ==
    IF frequency # None
    THEN LET aligned == [i \in DOMAIN dfs |-> align_frame(dfs[i].df, frequency)]
         IN  IF \E i \in DOMAIN dfs : aligned[i].kind = "raise"
             THEN [outcome |-> "ValueError", diagnostic |-> "skipped", result |-> NoFrame]
             ELSE [outcome |-> "ok", diagnostic |-> "skipped",
                   result |-> assemble_dataframe(
                                  [i \in DOMAIN dfs |-> [dfs[i] EXCEPT !.df = aligned[i]]],
                                  names)]
    ELSE LET checked == check_index_alignment(dfs)
         IN  IF checked.kind = "raise"
             THEN [outcome |-> checked.error, diagnostic |-> "raise", result |-> NoFrame]
             ELSE [outcome |-> "ok", diagnostic |-> checked.kind,
                   result |-> assemble_dataframe(dfs, names)]

(* Client.get(names, start, end, frequency=, use_cache=, unified=) with    *)
(* the wide output format: every way the call can end, as the cache table  *)
(* it leaves and what the caller and the sources saw of it.                *)
client_get_frequency(entries, names, start, end, use_cache, unified, menu, frequency) ==
    LET resolved == ResolveEntries(names)
    IN  IF resolved.raised
        THEN {[tables |-> entries, outcome |-> "SymbolNotFoundError", hits |-> {},
               calls |-> <<>>, result |-> NoFrame, diagnostic |-> "skipped"]}
        ELSE LET es == resolved.entries
                 finish(o) ==
                     IF o.outcome = "ok"
                     THEN align_check_assemble(o.dfs, names, frequency)
                     ELSE [outcome |-> o.outcome, diagnostic |-> "skipped",
                           result |-> NoFrame]
             IN  UNION {
                   {[tables |-> o.tables, outcome |-> finish(o).outcome,
                     hits |-> dict_keys(cached_dfs(es, cached, Len(es))),
                     calls |-> o.calls,
                     result |-> finish(o).result,
                     diagnostic |-> finish(o).diagnostic] :
                      o \in fetch_groups([tables |-> entries,
                                          dfs |-> cached_dfs(es, cached, Len(es)),
                                          calls |-> <<>>],
                                         group_by_source(uncached_entries(es, cached, Len(es))),
                                         start, end, use_cache, unified, menu)} :
                   cached \in probe_all(entries, es, start, end, use_cache, unified)}

(* Client.get with frequency None *)
client_get(entries, names, start, end, use_cache, unified, menu) ==
    client_get_frequency(entries, names, start, end, use_cache, unified, menu, None)

(* ---- the calls a user of Client makes ---- *)

(* names lists: single names, a batch of one provider, two providers in    *)
(* both orders, a name the catalog does not know in either position        *)
NameLists ==
    {<<"gdp">>, <<"spx">>, <<"gdp", "cpi">>, <<"gdp", "spx">>, <<"spx", "gdp">>,
     <<"zzz", "gdp">>, <<"gdp", "zzz">>}

(* a range long enough for a frequency to be inferred from its days, and a *)
(* range inside it that starts later                                       *)
ClientRanges == {<<1, MaxDay + 1>>, <<MaxDay + 1, MaxDay + 1>>}

(* <<use_cache, unified>> *)
ClientFlags == {<<TRUE, FALSE>>, <<FALSE, FALSE>>, <<TRUE, TRUE>>}

(* the column naming of a response: as the provider names it, or the     *)
(* column left out                                                       *)
NativeOrNone == {"native", "none"}

ClientGetWith(lists, ranges, flags, menu) ==
    \E names \in lists, rg \in ranges, fl \in flags :
      \E o \in client_get(cache_entries, names, rg[1], rg[2], fl[1], fl[2], menu) :
        /\ cache_entries' = o.tables
        /\ ret' = [op |-> "client_get", names |-> names, start_date |-> rg[1],
                   end_date |-> rg[2], use_cache |-> fl[1], unified |-> fl[2],
                   frequency |-> None, diagnostic |-> o.diagnostic,
                   outcome |-> o.outcome, hits |-> o.hits, calls |-> o.calls,
                   result |-> o.result]
        /\ UNCHANGED <<registry, callers, enabled, conn>>

(* sources that name every column the way the provider does, or leave the  *)
(* column of a request out                                                 *)
ClientGet == ClientGetWith(NameLists, ClientRanges, ClientFlags, NativeOrNone)

ClearCacheSources == {None, "bloomberg", "macrobond"}

(* Client.clear_cache(source=): hands source on to Cache.clear, without a  *)
(* symbol                                                                  *)
ClientClearCache ==
    \E source \in ClearCacheSources :
        /\ cache_entries' = clear(cache_entries, source, None)
        /\ ret' = [op |-> "clear_cache", source |-> source]
        /\ UNCHANGED <<registry, callers, enabled, conn>>

NextClient == ClientGet \/ ClientClearCache

SpecClient == Init /\ [][NextClient]_vars

ColumnNameLists == {<<"spx">>, <<"gdp">>, <<"spx", "gdp">>}

ColumnFlags == {<<TRUE, FALSE>>, <<FALSE, FALSE>>}

ColumnStyles == {"composite", "symbol", "case", "composite_case", "both", "none"}

(* sources that name the column of a request in any of the ways the        *)
(* fallback has a step for, at one range, with and without caching         *)
ClientGetColumns ==
    ClientGetWith(ColumnNameLists, {<<1, MaxDay + 1>>}, ColumnFlags, ColumnStyles)

NextColumns == ClientGetColumns

SpecColumns == Init /\ [][NextColumns]_vars

(* ------------------------------------------------------------------ *)
(* Client.get: claims                                                  *)
(* ------------------------------------------------------------------ *)

(* the names of a call that were fetched and whose column was found *)
FetchedResolved(c) ==
    UNION {{c.calls[k].names[i] : i \in {i \in DOMAIN c.calls[k].picked :
                                          c.calls[k].picked[i] # None}} :
           k \in DOMAIN c.calls}

(* the rows of a wide table: column, day, value *)
ResultRows(df) ==
    UNION {{<<df.columns[j].name, d, df.columns[j].val>> : d \in df.columns[j].days} :
           j \in DOMAIN df.columns}

SameCall(c1, c2) ==
    /\ c1.names = c2.names
    /\ c1.start_date = c2.start_date /\ c1.end_date = c2.end_date

CachingCall(c) == c.op = "client_get" /\ c.use_cache /\ ~c.unified

(* C5: after a get with caching on in which every name was fetched and     *)
(* resolved, an identical second get invokes no source and returns the     *)
(* same rows.                                                              *)
C5_IdenticalGetFromCache ==
    [][(/\ CachingCall(ret) /\ ret.outcome = "ok" /\ ret.hits = {}
        /\ \A i \in DOMAIN ret.names : ret.names[i] \in FetchedResolved(ret)
        /\ CachingCall(ret') /\ SameCall(ret, ret'))
       => (/\ ret'.calls = <<>>
           /\ ret'.outcome = "ok"
           /\ ResultRows(ret'.result) = ResultRows(ret.result))]_vars

(* C6: in one get each provider's source is invoked at most once, and      *)
(* exactly when at least one of its entries missed the cache; the batch    *)
(* holds exactly the provider's missed entries.                            *)
C6_OneBatchPerProviderWithMisses ==
    (ret.op = "client_get" /\ ret.outcome # "SymbolNotFoundError") =>
        \A p \in {e.source : e \in catalog} :
            LET missed == SelectSeq(ret.names,
                              LAMBDA n : CatalogGet(n).source = p /\ n \notin ret.hits)
                ks == {k \in DOMAIN ret.calls : ret.calls[k].source = p}
            IN  /\ Cardinality(ks) <= 1
                /\ (ks # {}) <=> (missed # <<>>)
                /\ \A k \in ks :
                      ret.calls[k].requests =
                          [i \in DOMAIN missed |-> FetchRequest(CatalogGet(missed[i]))]

(* C7: after a multi-name get that fetched in provider batches every       *)
(* resolved name has its own record under the requested range, and a later *)
(* get of one of those names over a range inside it invokes no source.     *)
C7_SingleNameAfterBatchFromCache ==
    [][(/\ CachingCall(ret) /\ ret.outcome = "ok"
        /\ Len(ret.names) > 1 /\ ret.calls # <<>>
        /\ CachingCall(ret') /\ Len(ret'.names) = 1
        /\ ret'.names[1] \in FetchedResolved(ret)
        /\ ret.start_date <= ret'.start_date /\ ret'.end_date <= ret.end_date)
       => (/\ \A n \in FetchedResolved(ret) :
                \E r \in cache_entries :
                    /\ SameSeries(r, CatalogGet(n))
                    /\ r.start_date = ret.start_date /\ r.end_date = ret.end_date
           /\ ret'.calls = <<>>
           /\ ret'.outcome = "ok")]_vars

(* C8: the column of a request is the symbol::field column when the        *)
(* response has it, else the bare symbol column when the response has it,  *)
(* else a column equal to the bare symbol up to letter case; only when no  *)
(* step matches is the name dropped, and a resolved name is in the table.  *)
C8_ColumnFallbackOrder ==
    ret.op = "client_get" =>
        \A k \in DOMAIN ret.calls :
            ret.calls[k].response.kind = "DataFrame" =>
                \A i \in DOMAIN ret.calls[k].requests :
                    LET req == ret.calls[k].requests[i]
                        cols == ColumnNames(ret.calls[k].response)
                        composite == IF req.field = None THEN req.symbol
                                     ELSE req.symbol \o "::" \o req.field
                        anycase == {c \in cols : str_lower(c) = str_lower(req.symbol)}
                        picked == ret.calls[k].picked[i]
                    IN  /\ composite \in cols => picked = composite
                        /\ (composite \notin cols /\ req.symbol \in cols) => picked = req.symbol
                        /\ (composite \notin cols /\ req.symbol \notin cols /\ anycase # {})
                              => picked \in anycase
                        /\ (composite \notin cols /\ anycase = {}) => picked = None
                        /\ (picked # None /\ ret.outcome = "ok") =>
                              \E j \in DOMAIN ret.result.columns :
                                  ret.result.columns[j].name = ret.calls[k].names[i]

(* C8 happens: a request with a field got a response that holds only the   *)
(* bare symbol column, and its name is in the returned table.              *)
C8_Witness ==
    /\ ret.op = "client_get" /\ ret.outcome = "ok"
    /\ \E k \in DOMAIN ret.calls :
          /\ ret.calls[k].response.kind = "DataFrame"
          /\ ret.calls[k].requests[1].field # None
          /\ ColumnNames(ret.calls[k].response) = {ret.calls[k].requests[1].symbol}
          /\ ret.calls[k].picked[1] = ret.calls[k].requests[1].symbol
          /\ \E j \in DOMAIN ret.result.columns :
                ret.result.columns[j].name = ret.calls[k].names[1]

(* C9: the returned table has one column per resolved name (cache hit or   *)
(* fetched and found), named by the caller's name, in the order of names.  *)
C9_ColumnsInNamesOrder ==
    (ret.op = "client_get" /\ ret.outcome = "ok") =>
        [j \in DOMAIN ret.result.columns |-> ret.result.columns[j].name] =
            SelectSeq(ret.names, LAMBDA n : n \in ret.hits \cup FetchedResolved(ret))

(* C9 happens: the second name was fetched first (its provider sorts       *)
(* first), the first name came from the cache or from the later batch, and *)
(* both are columns of the table.                                          *)
C9_Witness ==
    /\ ret.op = "client_get" /\ ret.outcome = "ok"
    /\ Len(ret.names) = 2 /\ Len(ret.result.columns) = 2
    /\ ret.calls # <<>>
    /\ ret.calls[1].names = <<ret.names[2]>>
    /\ ret.calls[1].picked[1] # None

(* C10: a get with a name the catalog does not know raises the name-not-   *)
(* found error, invokes no source, writes no cache record and returns no   *)
(* table, wherever the name is in the list.                                *)
C10_UnknownNameFailsFirst ==
    [][(ret'.op = "client_get" /\ \E i \in DOMAIN ret'.names : ~Known(ret'.names[i]))
       => (/\ ret'.outcome = "SymbolNotFoundError"
           /\ ret'.calls = <<>>
           /\ ret'.result = NoFrame
           /\ cache_entries' = cache_entries)]_vars

(* C10 happens: the unknown name is the last of the list, after a known    *)
(* name that is not in the cache and would have been fetched.              *)
C10_Witness ==
    /\ ret.op = "client_get" /\ ret.outcome = "SymbolNotFoundError"
    /\ Len(ret.names) = 2 /\ Known(ret.names[1]) /\ ~Known(ret.names[2])
    /\ ret.use_cache
    /\ cache_entries # {}
    /\ \A r \in cache_entries : ~SameSeries(r, CatalogGet(ret.names[1]))

(* no step of the fallback finds a column for req among cols *)
NoStepMatches(req, cols) ==
    /\ make_column_name(req.symbol, req.field) \notin cols
    /\ req.symbol \notin cols
    /\ \A c \in cols : str_lower(c) # str_lower(req.symbol)

(* the names of a call whose batch was answered with a table in which no   *)
(* step finds their column                                                 *)
Dropped(c) ==
    UNION {{c.calls[k].names[i] : i \in {i \in DOMAIN c.calls[k].requests :
                NoStepMatches(c.calls[k].requests[i], ColumnNames(c.calls[k].response))}} :
           k \in {k \in DOMAIN c.calls : c.calls[k].response.kind = "DataFrame"}}

(* C11: a name for which no fallback step finds a column is only dropped:  *)
(* the call raises nothing unless a source raised, the table still holds   *)
(* the column of every other name that hit the cache or was resolved and   *)
(* no column of the dropped name, and the records of the dropped name's    *)
(* series are the same after the call as before.                           *)
C11_DroppedNameOnly ==
    [][(ret'.op = "client_get" /\ ret'.outcome # "SymbolNotFoundError")
       => \A n \in Dropped(ret') :
            /\ ret'.outcome = "ok" \/
                  \E k \in DOMAIN ret'.calls : ret'.calls[k].response.kind = "raise"
            /\ ret'.outcome = "ok" =>
                  {ret'.result.columns[j].name : j \in DOMAIN ret'.result.columns} =
                      {ret'.names[i] : i \in DOMAIN ret'.names} \ Dropped(ret')
            /\ {r \in cache_entries' : SameSeries(r, CatalogGet(n))} =
                  {r \in cache_entries : SameSeries(r, CatalogGet(n))}]_vars

(* C11 happens: of two names of one batch one was dropped, the other is    *)
(* the only column of the returned table and was written to the cache.     *)
C11_Witness ==
    /\ ret.op = "client_get" /\ ret.outcome = "ok" /\ ret.use_cache /\ ~ret.unified
    /\ Len(ret.names) = 2 /\ Len(ret.calls) = 1
    /\ ret.names[1] \in Dropped(ret)
    /\ ret.names[2] \in FetchedResolved(ret)
    /\ Len(ret.result.columns) = 1
    /\ ret.result.columns[1].name = ret.names[2]
    /\ \E r \in cache_entries : SameSeries(r, CatalogGet(ret.names[2]))
    /\ \A r \in cache_entries : ~SameSeries(r, CatalogGet(ret.names[1]))

(* ---- Client.get without the cache: claims ---- *)

(* the name n of the call c was handed to its source in one batch *)
Invoked(c, n) ==
    \E k \in DOMAIN c.calls :
        /\ c.calls[k].source = CatalogGet(n).source
        /\ \E i \in DOMAIN c.calls[k].names : c.calls[k].names[i] = n

(* the call c ended in the FetchError of a source that is fetched before   *)
(* the source of n                                                         *)
RaisedBefore(c, n) ==
    /\ c.outcome = "FetchError"
    /\ \E a, b \in DOMAIN SourceOrder :
          /\ a < b
          /\ SourceOrder[a] = c.calls[Len(c.calls)].source
          /\ SourceOrder[b] = CatalogGet(n).source

(* a record whose range contains the range of the call c is stored for n *)
StoredFor(entries, c, n) ==
    \E r \in entries :
        /\ SameSeries(r, CatalogGet(n))
        /\ r.start_date <= c.start_date /\ r.end_date >= c.end_date
        /\ Intact(r)

C12_ClearByProviderOnly ==
    [][(ret'.op = "clear" /\ ret'.source # None /\ ret'.symbol = None)
       => cache_entries' = {r \in cache_entries : r.source # ret'.source}]_vars

(* C13: clear with both arguments removes every record of that (provider,  *)
(* symbol) pair, whatever its field, path and range, and no record of any  *)
(* other pair; clear with no argument removes all records.                 *)
C13_ClearPairOrAll ==
    [][ret'.op = "clear"
       => /\ (ret'.source # None /\ ret'.symbol # None) =>
                cache_entries' = {r \in cache_entries :
                                    ~(r.source = ret'.source /\ r.symbol = ret'.symbol)}
          /\ (ret'.source = None /\ ret'.symbol = None) => cache_entries' = {}]_vars

(* C13 happens: a clear with both arguments removed a record stored under  *)
(* a field and left a record of another pair.                              *)
C13_Witness ==
    /\ ret.op = "clear" /\ ret.source # None /\ ret.symbol # None
    /\ \E r \in ret.removed : r.field # None
    /\ cache_entries # {}

(* C14: clear_symbol removes exactly the records whose (provider, symbol,  *)
(* field, path) equal its arguments, null equal to null, at every range,   *)
(* and returns how many it removed; a repeated identical call removes      *)
(* nothing and returns 0.                                                  *)
C14_ClearSymbolExact ==
    [][ret'.op = "clear_symbol"
       => /\ cache_entries' = {r \in cache_entries : ~SameSeries(r, ret')}
          /\ ret'.result = Cardinality(cache_entries \ cache_entries')
          /\ (ret.op = "clear_symbol" /\ SameSeries(ret, ret')) =>
                (ret'.result = 0 /\ cache_entries' = cache_entries)]_vars

(* C14 happens: a clear_symbol with a null field removed a record and left *)
(* the record of the same provider and symbol stored under a field value.  *)
C14_Witness ==
    /\ ret.op = "clear_symbol" /\ ret.field = None /\ ret.result = 1
    /\ \E r \in cache_entries :
          r.source = ret.source /\ r.symbol = ret.symbol /\ r.field # None

(* ------------------------------------------------------------------ *)
(* Storage faults                                                      *)
(* ------------------------------------------------------------------ *)
(* A statement of the storage layer (or to_parquet) raises.  The table is  *)
(* what the connection of the Cache sees, its open transaction included:   *)
(* no except clause rolls back, so the statements that ran before the one  *)
(* that raised stay in effect for every later call on the connection.      *)

(* the cache_entries row of r after its cache_data row was deleted *)
WithoutData(r) == [r EXCEPT !.data = NoBlob]

(* the steps of Cache.put that can raise *)
PutSteps == {"to_parquet", "delete", "insert_entry", "insert_data", "commit"}

(* Cache.put when step raises: the tables the call can leave.  The except  *)
(* clause logs and returns.  In _delete_entry the SELECT or the first      *)
(* DELETE can raise (nothing changed) or the second (the payload is gone,  *)
(* the key row is not); a commit that raises either left the transaction   *)
(* open or rolled it back.                                                 *)
put_failing(entries, source, symbol, field, path, start_date, end_date, data, step) ==
    IF ~enabled \/ conn = None
    THEN {entries}
    ELSE LET row == EntryRow(source, symbol, field, path, start_date, end_date,
                             to_parquet(data))
             found == {r \in entries :
                         DeleteWhere(r, source, symbol, field, path, start_date, end_date)}
             deleted == delete_entry(entries, source, symbol, field, path,
                                     start_date, end_date)
         IN  CASE step = "to_parquet" -> {entries}
               [] step = "delete" ->
                     {entries} \cup {(entries \ {r}) \cup {WithoutData(r)} : r \in found}
               [] step = "insert_entry" -> deleted
               [] step = "insert_data" -> {d \cup {WithoutData(row)} : d \in deleted}
               [] step = "commit" -> {entries} \cup {d \cup {row} : d \in deleted}

(* Cache.get when the SELECT raises: the except clause returns None *)
get_failing(entries, source, symbol, field, path, start_date, end_date) == {NoFrame}

(* the steps of Cache.clear and Cache.clear_symbol that can raise *)
ClearSteps == {"delete_data", "delete_entries", "commit"}

(* the tables a clearing call can leave when step raises, gone being the   *)
(* rows its DELETEs are aimed at; nothing catches the exception            *)
clearing_failing(entries, gone, step) ==
    IF ~enabled \/ conn = None
    THEN {entries}
    ELSE CASE step = "delete_data" -> {entries}
           [] step = "delete_entries" -> {(entries \ gone) \cup {WithoutData(r) : r \in gone}}
           [] step = "commit" -> {entries, entries \ gone}

(* Cache.clear when step raises *)
clear_failing(entries, source, symbol, step) ==
    clearing_failing(entries, entries \ clear(entries, source, symbol), step)

(* Cache.clear_symbol when step raises *)
clear_symbol_failing(entries, source, symbol, field, path, step) ==
    clearing_failing(entries,
                     {r \in entries : ClearSymbolWhere(r, source, symbol, field, path)}, step)

(* Cache.list_cached_symbols: the keys of the rows of cache_entries *)
list_cached_symbols(entries) ==
    IF ~enabled \/ conn = None
    THEN {}
    ELSE {[source |-> r.source, symbol |-> r.symbol, field |-> r.field, path |-> r.path,
           start_date |-> r.start_date, end_date |-> r.end_date] : r \in entries}

(* ---- the calls on a cache whose storage can fail ---- *)

(* the series of the catalog entry gdp *)
FaultSeries == {<<"macrobond", "usgdp", None, None>>}

FaultFrames(rg) ==
    {DataFrame("UTC", "D", rg[1]..rg[2], <<[name |-> "usgdp", val |-> v]>>) : v \in Vals}

FaultyPut ==
    \E k \in FaultSeries, rg \in ClientRanges, step \in PutSteps \cup {"none"} :
      \E df \in FaultFrames(rg) :
        \E after \in (IF step = "none"
                      THEN put(cache_entries, k[1], k[2], k[3], k[4], rg[1], rg[2], df)
                      ELSE put_failing(cache_entries, k[1], k[2], k[3], k[4], rg[1], rg[2],
                                       df, step)) :
            /\ cache_entries' = after
            /\ ret' = [op |-> "put", source |-> k[1], symbol |-> k[2], field |-> k[3],
                       path |-> k[4], start_date |-> rg[1], end_date |-> rg[2],
                       data |-> df, fault |-> step, raised |-> FALSE]
            /\ UNCHANGED <<registry, callers, enabled, conn>>

(* the SELECT of a read runs, or raises *)
SelectSteps == {"none", "select"}

FaultyGet ==
    \E k \in FaultSeries, rg \in ClientRanges, step \in SelectSteps :
      \E res \in (IF step = "none"
                  THEN get(cache_entries, k[1], k[2], k[3], k[4], rg[1], rg[2])
                  ELSE get_failing(cache_entries, k[1], k[2], k[3], k[4], rg[1], rg[2])) :
        /\ ret' = [op |-> "get", source |-> k[1], symbol |-> k[2], field |-> k[3],
                   path |-> k[4], start_date |-> rg[1], end_date |-> rg[2],
                   result |-> res, fault |-> step, raised |-> FALSE]
        /\ UNCHANGED <<registry, callers, enabled, conn, cache_entries>>

(* the arguments of clear: absent, or the source and symbol of gdp *)
FrameClearSources == {None, "macrobond"}

FrameClearSymbols == {None, "usgdp"}

FaultyClear ==
    \E source \in FrameClearSources, symbol \in FrameClearSymbols,
       step \in ClearSteps \cup {"none"} :
      \E after \in (IF step = "none" THEN {clear(cache_entries, source, symbol)}
                    ELSE clear_failing(cache_entries, source, symbol, step)) :
        /\ cache_entries' = after
        /\ ret' = [op |-> "clear", source |-> source, symbol |-> symbol,
                   fault |-> step, raised |-> step # "none"]
        /\ UNCHANGED <<registry, callers, enabled, conn>>

FaultyClearSymbol ==
    \E k \in FaultSeries, step \in ClearSteps \cup {"none"} :
      \E after \in (IF step = "none"
                    THEN {clear_symbol(cache_entries, k[1], k[2], k[3], k[4])[1]}
                    ELSE clear_symbol_failing(cache_entries, k[1], k[2], k[3], k[4], step)) :
        /\ cache_entries' = after
        /\ ret' = [op |-> "clear_symbol", source |-> k[1], symbol |-> k[2],
                   field |-> k[3], path |-> k[4],
                   fault |-> step, raised |-> step # "none"]
        /\ UNCHANGED <<registry, callers, enabled, conn>>

FaultyList ==
    \E step \in SelectSteps :
        /\ ret' = [op |-> "list_cached_symbols",
                   result |-> IF step = "none" THEN list_cached_symbols(cache_entries) ELSE {},
                   fault |-> step, raised |-> step # "none"]
        /\ UNCHANGED <<registry, callers, enabled, conn, cache_entries>>

(* the bytes of a stored payload are damaged on disk *)
Corrupt ==
    \E r \in cache_entries :
        /\ r.data.magic = "PAR1"
        /\ cache_entries' = (cache_entries \ {r}) \cup {[r EXCEPT !.data = [magic |-> "junk"]]}
        /\ ret' = [op |-> "corrupt"]
        /\ UNCHANGED <<registry, callers, enabled, conn>>

(* Client.get of the catalog entry gdp over such a cache *)
ClientGetDegraded ==
    ClientGetWith({<<"gdp">>}, ClientRanges, {<<TRUE, FALSE>>}, {"native"})

NextFaults ==
    \/ FaultyPut \/ FaultyGet \/ FaultyClear \/ FaultyClearSymbol \/ FaultyList
    \/ Corrupt \/ ClientGetDegraded

SpecFaults == Init /\ [][NextFaults]_vars

(* ---- storage faults: claims ---- *)

(* C15: no operation of the cache surfaces an exception of the storage     *)
(* layer to its caller: put, get, clear, clear_symbol and the listing of   *)
(* the entries all return; a get whose storage failed or whose record is   *)
(* damaged is a miss; Client.get over such a cache completes.              *)
C15_NoStorageErrorSurfaces ==
    /\ ("raised" \in DOMAIN ret) => ~ret.raised
    /\ (ret.op = "get" /\ ret.fault # "none") => ret.result = NoFrame
    /\ (ret.op = "get" /\ IsFrame(ret.result)) =>
           \E r \in cache_entries : SameSeries(r, ret) /\ Intact(r)
    /\ ret.op = "client_get" => ret.outcome = "ok"

(* C16: a put that raised at any of its steps leaves the stored records    *)
(* and their payloads as they were before the call.                        *)
C16_FailedPutIsNoOp ==
    [][(ret'.op = "put" /\ "fault" \in DOMAIN ret' /\ ret'.fault # "none")
       => cache_entries' = cache_entries]_vars

(* ------------------------------------------------------------------ *)
(* Client.get_raw                                                      *)
(* ------------------------------------------------------------------ *)

(* self._registry: the names of the registered source adapters *)
Registered(source) == \E i \in DOMAIN SourceOrder : SourceOrder[i] = source

(* Client.get_raw(source, symbol, start, end, field=, path=, use_cache=):  *)
(* every way the call can end.  The cache is asked first; on a miss the    *)
(* registry is asked for the adapter (UnknownSourceError), the adapter is  *)
(* called with the one request, and the table it returns is written whole  *)
(* under the key and the requested range.                                  *)
get_raw(entries, source, symbol, field, path, start, end, use_cache, menu) ==
    LET request == [symbol |-> symbol, field |-> field, path |-> path, params |-> None]
        call(resp) == [source |-> source, requests |-> <<request>>, response |-> resp]
        probed == IF use_cache
                  THEN get(entries, source, symbol, field, path, start, end)
                  ELSE {NoFrame}
        fetched ==
            IF ~Registered(source)
            THEN {[tables |-> entries, outcome |-> "UnknownSourceError", calls |-> <<>>,
                   hit |-> FALSE, result |-> NoFrame]}
            ELSE UNION {
                   IF df.kind = "raise"
                   THEN {[tables |-> entries, outcome |-> df.error, calls |-> <<call(df)>>,
                          hit |-> FALSE, result |-> NoFrame]}
                   ELSE {[tables |-> w, outcome |-> "ok", calls |-> <<call(df)>>,
                          hit |-> FALSE, result |-> df] :
                            w \in (IF use_cache
                                   THEN put(entries, source, symbol, field, path, start, end, df)
                                   ELSE {entries})} :
                   df \in fetch(source, <<request>>, start, end, menu)}
    IN  UNION {IF cached.kind = "DataFrame"
               THEN {[tables |-> entries, outcome |-> "ok", calls |-> <<>>,
                      hit |-> TRUE, result |-> cached]}
               ELSE fetched : cached \in probed}

(* the keys of the catalog entries spx and gdp, and a source that is not   *)
(* registered                                                              *)
RawKeys ==
    {<<"bloomberg", "SPX Index", "PX_LAST", None>>, <<"macrobond", "usgdp", None, None>>,
     <<"nosuch", "usgdp", None, None>>}

GetRaw ==
    \E k \in RawKeys, rg \in ClientRanges, use_cache \in BOOLEAN :
      \E o \in get_raw(cache_entries, k[1], k[2], k[3], k[4], rg[1], rg[2], use_cache,
                       {"native"}) :
        /\ cache_entries' = o.tables
        /\ ret' = [op |-> "get_raw", source |-> k[1], symbol |-> k[2], field |-> k[3],
                   path |-> k[4], start_date |-> rg[1], end_date |-> rg[2],
                   use_cache |-> use_cache, outcome |-> o.outcome, hit |-> o.hit,
                   calls |-> o.calls, result |-> o.result]
        /\ UNCHANGED <<registry, callers, enabled, conn>>

RawNameLists == {<<"spx">>, <<"gdp">>}

(* Client.get of one catalog name, with caching *)
ClientGetOne ==
    ClientGetWith(RawNameLists, ClientRanges, {<<TRUE, FALSE>>}, {"native"})

NextRaw == GetRaw \/ ClientGetOne

SpecRaw == Init /\ [][NextRaw]_vars

(* ---- Client.get_raw: claims ---- *)

(* C19: get_raw with caching on that missed has written the fetched table  *)
(* under its key and range; after a get_raw with caching on that returned  *)
(* a table, an identical get_raw, and a get of a catalog entry of the same *)
(* provider, symbol, field and path over a range inside it, invoke no      *)
(* source.                                                                 *)
C19_GetRawCachesLikeGet ==
    [][/\ (ret'.op = "get_raw" /\ ret'.use_cache /\ ret'.outcome = "ok" /\ ~ret'.hit) =>
             \E r \in cache_entries' :
                 /\ SameSeries(r, ret')
                 /\ r.start_date = ret'.start_date /\ r.end_date = ret'.end_date
                 /\ read_parquet(r.data) = read_parquet(to_parquet(ret'.result))
       /\ (ret.op = "get_raw" /\ ret.use_cache /\ ret.outcome = "ok") =>
             /\ (/\ ret'.op = "get_raw" /\ ret'.use_cache
                 /\ SameSeries(ret, ret')
                 /\ ret'.start_date = ret.start_date /\ ret'.end_date = ret.end_date)
                    => ret'.calls = <<>>
             /\ (/\ CachingCall(ret')
                 /\ SameSeries(ret, CatalogGet(ret'.names[1]))
                 /\ ret.start_date <= ret'.start_date /\ ret'.end_date <= ret.end_date)
                    => ret'.calls = <<>>]_vars

(* ------------------------------------------------------------------ *)
(* Two callers of Client.get at the same time                          *)
(* ------------------------------------------------------------------ *)
(* Two callers get the same name over the same range while no record   *)
(* of its key is stored.  They are either two threads on one Client    *)
(* (one sqlite3 connection, opened with check_same_thread left at its  *)
(* default: only the thread that opened it may use it), or two Clients *)
(* with a connection each on the same database file.  A step is one    *)
(* statement a caller runs; cache_entries is the committed database,   *)
(* the rows here carry their id.                                       *)

Callers == {1, 2}

(* the key and range both callers ask for: the catalog entry gdp *)
ConcurrentKey ==
    [source |-> "macrobond", symbol |-> "usgdp", field |-> None, path |-> None,
     start_date |-> 1, end_date |-> MaxDay]

(* mode "threads": owner is the thread that constructed the Client, 0 when *)
(* it is neither caller.  mode "connections": a connection per caller.     *)
ConcurrentStart(mode, owner) ==
    [mode |-> mode, owner |-> owner,
     pc |-> [c \in Callers |-> "get"],
     df |-> [c \in Callers |-> NoFrame],
     found |-> [c \in Callers |-> {}],
     deleted |-> [c \in Callers |-> {}],
     inserted |-> [c \in Callers |-> {}],
     lock |-> 0,
     finished |-> <<>>]

InitConcurrent ==
    /\ enabled = TRUE
    /\ conn = "open"
    /\ cache_entries = {}
    /\ ret = [op |-> "init"]
    /\ callers \in {ConcurrentStart("connections", 0)} \cup
                   {ConcurrentStart("threads", o) : o \in {0} \cup Callers}
    /\ registry = NewRegistry

(* the connection lets the caller's thread use it; otherwise every call on *)
(* it raises sqlite3.ProgrammingError                                      *)
Usable(c) == callers.mode = "connections" \/ callers.owner = c

(* the table as the connection of c reads it: the committed rows and its   *)
(* own open transaction                                                    *)
View(c) == (cache_entries \ callers.deleted[c]) \cup callers.inserted[c]

(* the write lock of the database file is free for the connection of c *)
LockFree(c) == callers.lock \in {0, c}

Step(c, pc) == [op |-> "caller", caller |-> c, step |-> pc]

(* the probe of Client.get: Cache.get, whose except clause turns the       *)
(* exception of a foreign thread into a miss; a hit ends the call          *)
CallerGet(c) ==
    /\ callers.pc[c] = "get"
    /\ \E cached \in (IF Usable(c)
                      THEN get(View(c), ConcurrentKey.source, ConcurrentKey.symbol,
                               ConcurrentKey.field, ConcurrentKey.path,
                               ConcurrentKey.start_date, ConcurrentKey.end_date)
                      ELSE {NoFrame}) :
          callers' = [callers EXCEPT !.pc[c] = IF IsFrame(cached) THEN "hit" ELSE "fetch"]
    /\ ret' = Step(c, "get")
    /\ UNCHANGED <<registry, enabled, conn, cache_entries>>

(* source.fetch: the provider's numbers of the moment, or FetchError,      *)
(* which ends the call before the put                                      *)
CallerFetch(c) ==
    /\ callers.pc[c] = "fetch"
    /\ \/ \E v \in Vals :
            callers' = [callers EXCEPT
                          !.pc[c] = "select",
                          !.df[c] = DataFrame("UTC", "D",
                                              ConcurrentKey.start_date..ConcurrentKey.end_date,
                                              <<[name |-> "usgdp", val |-> v]>>)]
       \/ callers' = [callers EXCEPT !.pc[c] = "raised"]
    /\ ret' = Step(c, "fetch")
    /\ UNCHANGED <<registry, enabled, conn, cache_entries>>

(* Cache.put up to the fetchone() of _delete_entry.  On a connection of    *)
(* another thread the SELECT raises and the except clause of put returns.  *)
CallerSelect(c) ==
    /\ callers.pc[c] = "select"
    /\ IF ~Usable(c)
       THEN callers' = [callers EXCEPT !.pc[c] = "done", !.finished = Append(@, c)]
       ELSE LET rows == {r \in View(c) :
                           DeleteWhere(r, ConcurrentKey.source, ConcurrentKey.symbol,
                                       ConcurrentKey.field, ConcurrentKey.path,
                                       ConcurrentKey.start_date, ConcurrentKey.end_date)}
            IN  IF rows = {}
                THEN callers' = [callers EXCEPT !.pc[c] = "insert"]
                ELSE \E r \in rows :
                        callers' = [callers EXCEPT !.pc[c] = "delete", !.found[c] = {r}]
    /\ ret' = Step(c, "select")
    /\ UNCHANGED <<registry, enabled, conn, cache_entries>>

(* the two DELETEs of _delete_entry: they open the transaction of the      *)
(* connection and take the write lock                                      *)
CallerDelete(c) ==
    /\ callers.pc[c] = "delete"
    /\ LockFree(c)
    /\ callers' = [callers EXCEPT !.pc[c] = "insert", !.lock = c,
                                  !.deleted[c] = callers.found[c]]
    /\ ret' = Step(c, "delete")
    /\ UNCHANGED <<registry, enabled, conn, cache_entries>>

(* the two INSERTs of put; a UNIQUE violation is caught by put, which      *)
(* returns with the transaction left open                                  *)
CallerInsert(c) ==
    /\ callers.pc[c] = "insert"
    /\ LockFree(c)
    /\ LET row == [source |-> ConcurrentKey.source, symbol |-> ConcurrentKey.symbol,
                   field |-> ConcurrentKey.field, path |-> ConcurrentKey.path,
                   start_date |-> ConcurrentKey.start_date,
                   end_date |-> ConcurrentKey.end_date,
                   data |-> to_parquet(callers.df[c]), id |-> c]
       IN  IF UniqueViolation(View(c), row)
           THEN callers' = [callers EXCEPT !.pc[c] = "done", !.lock = c,
                                           !.finished = Append(@, c)]
           ELSE callers' = [callers EXCEPT !.pc[c] = "commit", !.lock = c,
                                           !.inserted[c] = {row}]
    /\ ret' = Step(c, "insert")
    /\ UNCHANGED <<registry, enabled, conn, cache_entries>>

(* the first writing statement of put finds the database locked by the     *)
(* other connection until its timeout: sqlite3.OperationalError, caught by *)
(* put.  (Waiting for the lock is CallerDelete or CallerInsert later.)     *)
CallerBusy(c) ==
    /\ callers.pc[c] \in {"delete", "insert"}
    /\ ~LockFree(c)
    /\ callers' = [callers EXCEPT !.pc[c] = "done", !.finished = Append(@, c)]
    /\ ret' = Step(c, "busy")
    /\ UNCHANGED <<registry, enabled, conn, cache_entries>>

(* self._conn.commit() of put, and its return *)
CallerCommit(c) ==
    /\ callers.pc[c] = "commit"
    /\ cache_entries' = View(c)
    /\ callers' = [callers EXCEPT !.pc[c] = "done", !.lock = 0,
                                  !.deleted[c] = {}, !.inserted[c] = {},
                                  !.finished = Append(@, c)]
    /\ ret' = Step(c, "commit")
    /\ UNCHANGED <<registry, enabled, conn>>

NextConcurrent ==
    \E c \in Callers :
        \/ CallerGet(c) \/ CallerFetch(c) \/ CallerSelect(c) \/ CallerDelete(c)
        \/ CallerInsert(c) \/ CallerBusy(c) \/ CallerCommit(c)

SpecConcurrent == InitConcurrent /\ [][NextConcurrent]_vars

(* ---- two callers: claims ---- *)

(* both callers missed, fetched, and their puts have returned *)
BothPut == callers.mode # "none" /\ \A c \in Callers : callers.pc[c] = "done"

(* the committed records under the key of the two callers *)
UnderKey == {r \in cache_entries : SameKey(r, ConcurrentKey)}

(* C20: once two callers that both missed and both fetched have both       *)
(* returned from their put, exactly one record is stored under the key,    *)
(* and its payload is the table of the caller whose put returned last.     *)
C20_LastWriteWins ==
    BothPut =>
        /\ Cardinality(UnderKey) = 1
        /\ \A r \in UnderKey :
              read_parquet(r.data) =
                  read_parquet(to_parquet(callers.df[callers.finished[Len(callers.finished)]]))

(* ------------------------------------------------------------------ *)
(* Client.get: errors of a batch                                       *)
(* ------------------------------------------------------------------ *)

(* C21: when the batch of one provider raised a fetch error, the names of  *)
(* the call that were cache hits or belong to another provider are not     *)
(* failed by it: a call that failed as a whole held only names of the      *)
(* provider that raised, none of them a hit.                               *)
C21_FetchErrorFailsOnlyItsBatch ==
    (ret.op = "client_get" /\ ret.outcome = "FetchError") =>
        \A i \in DOMAIN ret.names :
            /\ ret.names[i] \notin ret.hits
            /\ CatalogGet(ret.names[i]).source = ret.calls[Len(ret.calls)].source

(* ------------------------------------------------------------------ *)
(* The cache under its own calls and those of Client.get               *)
(* ------------------------------------------------------------------ *)

(* the keys of the catalog entries gdp and spx *)
FrameSeries ==
    {<<"macrobond", "usgdp", None, None>>, <<"bloomberg", "SPX Index", "PX_LAST", None>>}

(* tables as the source of the series returns them for the range *)
FrameFrames(k, rg) ==
    {DataFrame(SourceTz(k[1]), "D", rg[1]..rg[2],
               <<[name |-> make_column_name(k[2], k[3]), val |-> v]>>) : v \in Vals}

FramePut ==
    \E k \in FrameSeries, rg \in ClientRanges :
      \E df \in FrameFrames(k, rg) :
        \E after \in put(cache_entries, k[1], k[2], k[3], k[4], rg[1], rg[2], df) :
            /\ cache_entries' = after
            /\ ret' = [op |-> "put", source |-> k[1], symbol |-> k[2], field |-> k[3],
                       path |-> k[4], start_date |-> rg[1], end_date |-> rg[2],
                       data |-> df]
            /\ UNCHANGED <<registry, callers, enabled, conn>>

FrameGet ==
    \E k \in FrameSeries, rg \in ClientRanges :
      \E res \in get(cache_entries, k[1], k[2], k[3], k[4], rg[1], rg[2]) :
        /\ ret' = [op |-> "get", source |-> k[1], symbol |-> k[2], field |-> k[3],
                   path |-> k[4], start_date |-> rg[1], end_date |-> rg[2],
                   result |-> res]
        /\ UNCHANGED <<registry, callers, enabled, conn, cache_entries>>

FrameClear ==
    \E source \in FrameClearSources, symbol \in FrameClearSymbols :
        /\ cache_entries' = clear(cache_entries, source, symbol)
        /\ ret' = [op |-> "clear", source |-> source, symbol |-> symbol]
        /\ UNCHANGED <<registry, callers, enabled, conn>>

FrameClearSymbol ==
    \E k \in FrameSeries :
      LET res == clear_symbol(cache_entries, k[1], k[2], k[3], k[4])
      IN  /\ cache_entries' = res[1]
          /\ ret' = [op |-> "clear_symbol", source |-> k[1], symbol |-> k[2],
                     field |-> k[3], path |-> k[4], result |-> res[2]]
          /\ UNCHANGED <<registry, callers, enabled, conn>>

FrameNameLists == {<<"gdp">>, <<"spx", "gdp">>}

(* Client.get with caching on, over sources that may leave a column out *)
FrameClientGet ==
    ClientGetWith(FrameNameLists, ClientRanges, {<<TRUE, FALSE>>}, NativeOrNone)

NextFrame == FramePut \/ FrameGet \/ FrameClear \/ FrameClearSymbol \/ FrameClientGet

SpecFrame == Init /\ [][NextFrame]_vars

(* ---- claims ---- *)

(* the call c of Client.get fetched the series of r, found its column, and *)
(* wrote it under the range r is stored under                              *)
WrittenBy(c, r) ==
    \E n \in FetchedResolved(c) :
        /\ SameSeries(r, CatalogGet(n))
        /\ r.start_date = c.start_date /\ r.end_date = c.end_date

(* C22: a record leaves the cache only in a clear or clear_symbol, or in a *)
(* put (the cache's or the one Client.get makes for a fetched and resolved *)
(* column) with its own six-component key; get changes nothing; Client.get *)
(* creates a record only for a series it fetched and whose column it found.*)
C22_RecordsLeaveAndEnterOnlyByKey ==
    [][/\ \A r \in cache_entries \ cache_entries' :
             \/ ret'.op \in {"clear", "clear_symbol"}
             \/ ret'.op = "put" /\ SameKey(r, ret')
             \/ ret'.op = "client_get" /\ WrittenBy(ret', r)
       /\ ret'.op = "get" => cache_entries' = cache_entries
       /\ ret'.op = "put" => \A r \in cache_entries' \ cache_entries : SameKey(r, ret')
       /\ ret'.op = "client_get" =>
             \A r \in cache_entries' \ cache_entries : WrittenBy(ret', r)]_vars

(* a put whose series has a record under another range, with a different   *)
(* payload: both records are stored                                        *)
C22_Witness ==
    /\ ret.op = "put"
    /\ \E r, s \in cache_entries :
          /\ SameKey(r, ret)
          /\ SameSeries(s, ret) /\ ~SameKey(s, ret)
          /\ s.data.columns # r.data.columns

(* ------------------------------------------------------------------ *)
(* The cache closed, and the cache disabled                            *)
(* ------------------------------------------------------------------ *)

(* Cache(path, enabled=): a disabled cache returns from __init__ before    *)
(* _initialize_database, so sqlite3.connect never runs: no connection and  *)
(* no database file                                                        *)
InitLifecycle ==
    /\ enabled \in BOOLEAN
    /\ conn = IF enabled THEN "open" ELSE None
    /\ cache_entries = {}
    /\ ret = [op |-> "init"]
    /\ callers = NoCallers
    /\ registry = NewRegistry

(* Cache.close: closes the connection if there is one *)
Close ==
    /\ conn' = None
    /\ ret' = [op |-> "close", was_open |-> conn # None]
    /\ UNCHANGED <<registry, callers, enabled, cache_entries>>

ListCachedSymbols ==
    /\ ret' = [op |-> "list_cached_symbols", result |-> list_cached_symbols(cache_entries)]
    /\ UNCHANGED <<registry, callers, enabled, conn, cache_entries>>

NextLifecycle ==
    \/ FramePut \/ FrameGet \/ FrameClear \/ FrameClearSymbol \/ ListCachedSymbols
    \/ FrameClientGet \/ Close

SpecLifecycle == InitLifecycle /\ [][NextLifecycle]_vars

(* ---- claims ---- *)

(* C23: close can be repeated; once the cache is closed it stays closed,   *)
(* and every later call leaves the stored records alone: put stores        *)
(* nothing, get returns absent, clear_symbol returns 0, the listing is     *)
(* empty.                                                                  *)
C23_ClosedCacheIsInert ==
    [][/\ ret'.op = "close" => (conn' = None /\ cache_entries' = cache_entries)
       /\ (enabled /\ conn = None) =>
             /\ conn' = None
             /\ cache_entries' = cache_entries
             /\ ret'.op = "get" => ret'.result = NoFrame
             /\ ret'.op = "clear_symbol" => ret'.result = 0
             /\ ret'.op = "list_cached_symbols" => ret'.result = {}]_vars

(* a get on the closed cache for a key and range under which a record is   *)
(* on file                                                                 *)
C23_Witness ==
    /\ enabled /\ conn = None
    /\ ret.op = "get" /\ ret.result = NoFrame
    /\ \E r \in cache_entries : SameKey(r, ret) /\ Intact(r)

(* C24: a disabled cache has no connection and no file, stores nothing,    *)
(* answers every get with absent, and every Client.get that knows its      *)
(* names hands each of them to its source.                                 *)
C24_DisabledCacheStoresNothing ==
    ~enabled =>
        /\ conn = None
        /\ cache_entries = {}
        /\ ret.op = "get" => ret.result = NoFrame
        /\ ret.op = "list_cached_symbols" => ret.result = {}
        /\ (ret.op = "client_get" /\ ret.outcome # "SymbolNotFoundError") =>
              /\ ret.hits = {}
              /\ \A i \in DOMAIN ret.names :
                    Invoked(ret, ret.names[i]) \/ RaisedBefore(ret, ret.names[i])

(* Client.get of two names on the disabled cache, both fetched and found *)
C24_Witness ==
    /\ ~enabled
    /\ ret.op = "client_get" /\ ret.use_cache /\ ret.outcome = "ok"
    /\ ret.names = <<"spx", "gdp">>
    /\ FetchedResolved(ret) = {"spx", "gdp"}

(* ------------------------------------------------------------------ *)
(* Client.get_metadata                                                 *)
(* ------------------------------------------------------------------ *)
(* A dict is a function on its keys; every value is written as a       *)
(* string.                                                             *)

(* the fields of CatalogEntry *)
EntryFields == {"my_name", "source", "symbol", "field", "path", "description", "unit"}

(* the catalog of the session with the descriptive fields of its entries:  *)
(* a Bloomberg series, a Macrobond series without description and unit,    *)
(* and a column of a local file                                            *)
MetadataCatalog ==
    {[my_name |-> "spx", source |-> "bloomberg", symbol |-> "SPX Index",
      field |-> "PX_LAST", path |-> None, description |-> "S&P 500", unit |-> "points"],
     [my_name |-> "gdp", source |-> "macrobond", symbol |-> "usgdp",
      field |-> None, path |-> None, description |-> "US GDP", unit |-> None],
     [my_name |-> "gdp_file", source |-> "localfile", symbol |-> "GDP_US",
      field |-> None, path |-> "/data/macro.csv", description |-> None,
      unit |-> "USD billions"]}

MetadataGet(name) == CHOOSE e \in MetadataCatalog : e.my_name = name

(* str(Path(symbol).absolute()) in the working directory /work *)
AbsolutePath(symbol) == "/work/" \o symbol

(* keys an entity of Macrobond can carry in its metadata *)
MacrobondKeys ==
    {"Frequency", "Region", "frequency", "description", "unit", "symbol", "my_name"}

(* str(bool) *)
BoolStrings == {"True", "False"}

(* source.get_metadata(symbol): the dicts the adapter can return, or the   *)
(* FetchError of the Macrobond adapter                                     *)
SourceMetadata(source, symbol) ==
    CASE source = "bloomberg" ->
            {[source |-> "bloomberg", symbol |-> symbol, xbbg_available |-> b] :
                b \in BoolStrings}
      [] source = "localfile" ->
            {[source |-> "localfile", path |-> AbsolutePath(symbol), filename |-> symbol,
              extension |-> "", exists |-> "False"],
             [source |-> "localfile", path |-> AbsolutePath(symbol), filename |-> symbol,
              extension |-> "", exists |-> "True", size_bytes |-> "1"]}
      [] source = "macrobond" ->
            {[kind |-> "raise", error |-> "FetchError"]} \cup
            UNION {{[k \in S |-> "macrobond " \o k]} : S \in SUBSET MacrobondKeys}
      [] OTHER -> {<<>>}

(* the keys Client.get_metadata writes after **source_meta *)
MergedKeys == {"my_name", "source", "symbol", "frequency", "field", "description", "unit"}

(* the dict Client.get_metadata returns for the entry and the metadata of  *)
(* its source                                                              *)
get_metadata(entry, source_meta) ==
    LET inferred_freq == IF "frequency" \in DOMAIN source_meta
                         THEN source_meta["frequency"] ELSE None
    IN  [k \in DOMAIN source_meta \cup MergedKeys |->
            CASE k = "my_name" -> entry.my_name
              [] k = "source" -> entry.source
              [] k = "symbol" -> entry.symbol
              [] k = "frequency" -> inferred_freq
              [] k = "field" -> entry.field
              [] k = "description" -> entry.description
              [] k = "unit" -> entry.unit
              [] OTHER -> source_meta[k]]

MetadataNames == {e.my_name : e \in MetadataCatalog} \cup {"zzz"}

GetMetadata ==
    \E name \in MetadataNames :
        /\ IF \A e \in MetadataCatalog : e.my_name # name
           THEN ret' = [op |-> "get_metadata", name |-> name,
                        outcome |-> "SymbolNotFoundError"]
           ELSE \E source_meta \in SourceMetadata(MetadataGet(name).source,
                                                  MetadataGet(name).symbol) :
                   IF "kind" \in DOMAIN source_meta
                   THEN ret' = [op |-> "get_metadata", name |-> name,
                                outcome |-> source_meta.error]
                   ELSE ret' = [op |-> "get_metadata", name |-> name, outcome |-> "ok",
                                source_meta |-> source_meta,
                                result |-> get_metadata(MetadataGet(name), source_meta)]
        /\ UNCHANGED <<registry, callers, enabled, conn, cache_entries>>

NextMetadata == GetMetadata

SpecMetadata == Init /\ [][NextMetadata]_vars

(* ---- claims ---- *)

(* the keys the catalog entry has a value for *)
EntryKeys(entry) == {k \in EntryFields : entry[k] # None}

(* C25: the dict get_metadata returns has every key of the metadata of the *)
(* source and every key the catalog entry has a value for; a key of both   *)
(* has the value of the catalog entry, a key of the source alone the value *)
(* of the source.                                                          *)
C25_CatalogWinsOnCollision ==
    (ret.op = "get_metadata" /\ ret.outcome = "ok") =>
        LET entry == MetadataGet(ret.name)
        IN  /\ DOMAIN ret.source_meta \cup EntryKeys(entry) \subseteq DOMAIN ret.result
            /\ \A k \in DOMAIN ret.source_meta \cap EntryKeys(entry) :
                  ret.result[k] = entry[k]
            /\ \A k \in DOMAIN ret.source_meta \ EntryFields :
                  ret.result[k] = ret.source_meta[k]


(* ------------------------------------------------------------------ *)
(* align_to_frequency                                                  *)
(* ------------------------------------------------------------------ *)
(* The function is applied to every single-column table of up to       *)
(* MaxRows days, rows missing or present, values observed or NaN, and  *)
(* applied again to its own result.                                    *)

MaxRows == 4

Tables == UNION {[S -> Vals \cup {NaN}] : S \in SUBSET (1..MaxRows)}

InitAlign ==
    /\ enabled = TRUE
    /\ conn = "open"
    /\ cache_entries = {}
    /\ callers = NoCallers
    /\ registry = NewRegistry
    /\ \E t \in Tables, f \in Frequencies :
          ret = [op |-> "align", outcome |-> "ok", input |-> t,
                 frequency |-> f, table |-> t, aligned |-> 0]

Align ==
    /\ ret.op = "align"
    /\ ret.outcome = "ok"
    /\ ret.aligned < 2
    /\ LET a == align_to_frequency(ret.table, ret.frequency)
       IN  ret' = IF a.kind = "raise"
                  THEN [ret EXCEPT !.outcome = a.error]
                  ELSE [ret EXCEPT !.table = a.table, !.aligned = @ + 1]
    /\ UNCHANGED <<registry, enabled, conn, cache_entries, callers>>

NextAlign == Align

SpecAlign == InitAlign /\ [][NextAlign]_vars

(* every date of the table is a label of the grid of f *)
OnGrid(t, f) == \A d \in DOMAIN t : Label(PeriodOf(d, f), f) = d

(* the table has a row for every label from its first to its last, and no  *)
(* missing value                                                           *)
FullGrid(t, f) ==
    /\ OnGrid(t, f)
    /\ \A d \in DOMAIN t : t[d] # NaN
    /\ \A d \in DOMAIN t :
          d # SetMax(DOMAIN t) => Label(PeriodOf(d, f) + 1, f) \in DOMAIN t

(* C26: aligning the result of an alignment to the same frequency returns  *)
(* the same index and the same values; aligning a table whose dates are    *)
(* labels of the grid keeps every observed value at its date, and returns  *)
(* the table itself when it has every grid row observed.                   *)
C26_AlignIdempotent ==
    [][(ret.op = "align" /\ ret'.aligned = ret.aligned + 1) =>
          /\ ret.aligned = 1 => ret'.table = ret.table
          /\ OnGrid(ret.table, ret.frequency) =>
                \A d \in DOMAIN ret.table :
                   ret.table[d] # NaN =>
                      d \in DOMAIN ret'.table /\ ret'.table[d] = ret.table[d]
          /\ FullGrid(ret.table, ret.frequency) => ret'.table = ret.table]_vars

C26_Witness ==
    /\ ret.op = "align"
    /\ ret.aligned = 2
    /\ ret.frequency = "ME"
    /\ DOMAIN ret.table # DOMAIN ret.input
    /\ Cardinality(DOMAIN ret.table) >= 2

(* the periods from the first row of the table to its last *)
PeriodsSpanned(t, f) ==
    PeriodOf(SetMin(DOMAIN t), f)..PeriodOf(SetMax(DOMAIN t), f)

(* the observed rows of the table in period k *)
ObservedIn(t, f, k) == {d \in DOMAIN t : PeriodOf(d, f) = k /\ t[d] # NaN}

(* the table is finer than f: every period it spans holds an observation *)
Finer(t, f) ==
    /\ DOMAIN t # {}
    /\ f # "D"
    /\ \A k \in PeriodsSpanned(t, f) : ObservedIn(t, f, k) # {}

(* C27: a table finer than the target frequency is aligned to one row per  *)
(* period it spans, and the value of the row of a period is the last       *)
(* observation of the table inside that period.                            *)
C27_DownsampleTakesLastOfPeriod ==
    (ret.op = "align" /\ ret.aligned = 1 /\ Finer(ret.input, ret.frequency)) =>
       /\ Cardinality(DOMAIN ret.table) =
             Cardinality(PeriodsSpanned(ret.input, ret.frequency))
       /\ \A k \in PeriodsSpanned(ret.input, ret.frequency) :
             /\ Label(k, ret.frequency) \in DOMAIN ret.table
             /\ ret.table[Label(k, ret.frequency)] =
                   ret.input[SetMax(ObservedIn(ret.input, ret.frequency, k))]

C27_Witness ==
    /\ ret.op = "align"
    /\ ret.aligned = 1
    /\ ret.frequency = "ME"
    /\ DOMAIN ret.input = 1..(PeriodLen + 1)
    /\ \A d \in DOMAIN ret.input : ret.input[d] # NaN
    /\ ret.input[1] # ret.input[PeriodLen]
    /\ Cardinality(DOMAIN ret.table) = 2


(* ------------------------------------------------------------------ *)
(* Client.get: frequency and the diagnostic pass                       *)
(* ------------------------------------------------------------------ *)

(* no name, one name, names of two providers, a name the catalog does  *)
(* not know                                                            *)
FrequencyNameLists == {<<>>, <<"gdp">>, <<"gdp", "spx">>, <<"zzz">>}

(* frequency=: absent, a frequency pandas knows, one it does not *)
FrequencyArguments == {None, "ME", "bogus"}

ClientGetFrequency ==
    \E names \in FrequencyNameLists, rg \in ClientRanges,
       frequency \in FrequencyArguments :
      \E o \in client_get_frequency(cache_entries, names, rg[1], rg[2], TRUE, FALSE,
                                    NativeOrNone, frequency) :
        /\ cache_entries' = o.tables
        /\ ret' = [op |-> "client_get", names |-> names, start_date |-> rg[1],
                   end_date |-> rg[2], use_cache |-> TRUE, unified |-> FALSE,
                   frequency |-> frequency, diagnostic |-> o.diagnostic,
                   outcome |-> o.outcome, hits |-> o.hits, calls |-> o.calls,
                   result |-> o.result]
        /\ UNCHANGED <<registry, callers, enabled, conn>>

NextFrequency == ClientGetFrequency \/ ClientClearCache

SpecFrequency == Init /\ [][NextFrequency]_vars

(* the call named a frequency that pandas does not know *)
InvalidFrequencyCall(c) ==
    c.op = "client_get" /\ c.frequency # None /\ ~ValidFrequency(c.frequency)

(* C28: a get with an invalid frequency fails with the validation error,   *)
(* whatever the names and whatever the sources answer; it never returns a  *)
(* table.                                                                  *)
C28_InvalidFrequencyAlwaysFails ==
    InvalidFrequencyCall(ret) => ret.outcome = "ValueError"

(* the validation error is raised once a series reached the alignment *)
C28_InvalidFrequencyFailsWithASeries ==
    (InvalidFrequencyCall(ret) /\ ret.outcome # "ValueError") =>
        \/ ret.outcome \in {"SymbolNotFoundError", "FetchError"}
        \/ ret.outcome = "ok" /\ ret.result.columns = <<>>

(* C29: without a frequency the diagnostic pass never fails the call: when *)
(* every name is known and no source raised, the wide table is returned,   *)
(* with the rows of every series.                                          *)
C29_DiagnosticNeverFails ==
    (ret.op = "client_get" /\ ret.frequency = None) =>
        /\ ret.diagnostic # "raise"
        /\ ret.outcome \in {"ok", "SymbolNotFoundError", "FetchError"}


(* ------------------------------------------------------------------ *)
(* Range cache: a get right after a put                                *)
(* ------------------------------------------------------------------ *)

(* the step is a put that stored its record, followed at once by a get     *)
(* with the same six arguments                                             *)
PutThenSameGet ==
    /\ ret.op = "put"
    /\ \E r \in cache_entries : SameKey(r, ret) /\ r.data = to_parquet(ret.data)
    /\ ret'.op = "get"
    /\ SameKey(ret, ret')

(* the get returned the rows of the table that was put *)
ReturnsThePut ==
    IsFrame(ret'.result) /\ RowsOf(ret'.result) = RowsOf(ret.data)

(* C30: right after a successful put, a get with the same six arguments    *)
(* returns the rows of the table that was put, whatever other records the  *)
(* cache holds.                                                            *)
C30_ReadYourWrites ==
    [][PutThenSameGet => ReturnsThePut]_vars

(* the get returns the put when the record of the put is the only record   *)
(* of its series that contains the range                                   *)
C30_ReadYourWritesAlone ==
    [][(PutThenSameGet /\
        \A r \in cache_entries : (SameSeries(r, ret) /\ Contains(r, ret)) => SameKey(r, ret))
       => ReturnsThePut]_vars


(* ------------------------------------------------------------------ *)
(* Client.get: two requests of one symbol in a batch                   *)
(* ------------------------------------------------------------------ *)

(* the two fields of SPX Index together, and one of them alone *)
BatchNameLists == {<<"spx", "spx_open">>, <<"spx_open">>}

BatchFlags == {<<TRUE, FALSE>>, <<FALSE, FALSE>>}

(* the response names a column symbol::field, or by the bare symbol (the   *)
(* naming the first fallback is written for)                               *)
BatchStyles == {"native", "symbol"}

ClientGetBatch == ClientGetWith(BatchNameLists, ClientRanges, BatchFlags, BatchStyles)

NextBatch == ClientGetBatch

SpecBatch == Init /\ [][NextBatch]_vars

(* the entries of batch k of the call that were given a column *)
Assigned(c, k) == {i \in DOMAIN c.calls[k].picked : c.calls[k].picked[i] # None}

(* C31: within a batch no two names of the call are given the same         *)
(* returned column.                                                        *)
C31_ColumnsOneToOne ==
    ret.op = "client_get" =>
        \A k \in DOMAIN ret.calls :
            \A i, j \in Assigned(ret, k) :
                i # j => ret.calls[k].picked[i] # ret.calls[k].picked[j]

(* the mapping is one-to-one whenever the response names every column      *)
(* symbol::field                                                           *)
C31_OneToOneWhenComposite ==
    ret.op = "client_get" =>
        \A k \in DOMAIN ret.calls :
            (/\ ret.calls[k].response.kind = "DataFrame"
             /\ \A i \in DOMAIN ret.calls[k].requests :
                   make_column_name(ret.calls[k].requests[i].symbol,
                                    ret.calls[k].requests[i].field)
                      \in ColumnNames(ret.calls[k].response))
            => \A i, j \in Assigned(ret, k) :
                  i # j => ret.calls[k].picked[i] # ret.calls[k].picked[j]


(* ------------------------------------------------------------------ *)
(* Client.get_raw over a cache file that already holds records         *)
(* ------------------------------------------------------------------ *)

(* a table of the range, as an earlier session wrote it *)
RawFrame(rg) == DataFrame("naive", "D", rg[1]..rg[2], <<[name |-> "value", val |-> 1]>>)

(* Cache.put on the cache file of the client, under any of the keys: the   *)
(* file outlives the process and its registry of sources                   *)
RawPut ==
    \E k \in RawKeys, rg \in ClientRanges :
      \E after \in put(cache_entries, k[1], k[2], k[3], k[4], rg[1], rg[2], RawFrame(rg)) :
        /\ cache_entries' = after
        /\ ret' = [op |-> "put", source |-> k[1], symbol |-> k[2], field |-> k[3],
                   path |-> k[4], start_date |-> rg[1], end_date |-> rg[2],
                   data |-> RawFrame(rg)]
        /\ UNCHANGED <<registry, callers, enabled, conn>>

NextUnknown == GetRaw \/ RawPut

SpecUnknown == Init /\ [][NextUnknown]_vars

(* C32: get_raw with a source name that is not registered raises           *)
(* UnknownSourceError and returns no data, whatever the cache holds and    *)
(* whatever use_cache is.                                                  *)
C32_UnknownSourceRaises ==
    (ret.op = "get_raw" /\ ~Registered(ret.source)) =>
        ret.outcome = "UnknownSourceError" /\ ret.result = NoFrame

(* the error is raised whenever the cache is not asked or misses *)
C32_UnknownSourceRaisesOnMiss ==
    (ret.op = "get_raw" /\ ~Registered(ret.source) /\ ~ret.hit) =>
        ret.outcome = "UnknownSourceError" /\ ret.result = NoFrame /\ ret.calls = <<>>


(* ------------------------------------------------------------------ *)
(* SourceRegistry                                                      *)
(* ------------------------------------------------------------------ *)

(* the names sources are registered under, and the adapter classes *)
RegistryNames == {"test", "other"}

SourceClasses == {"TestSource", "OtherSource"}

(* d[key] = value on a dict *)
dict_put(d, key, value) ==
    [k \in DOMAIN d \cup {key} |-> IF k = key THEN value ELSE d[k]]

(* source_class(): a new object, told from every other by its number *)
Instantiate(source_class, instances) ==
    [class |-> source_class, id |-> Cardinality(DOMAIN instances) + 1]

(* SourceRegistry.register(name, source_class) *)
Register ==
    \E name \in RegistryNames, source_class \in SourceClasses :
        /\ registry' = [registry EXCEPT !.sources = dict_put(@, name, source_class)]
        /\ ret' = [op |-> "register", name |-> name, source_class |-> source_class]
        /\ UNCHANGED <<enabled, conn, cache_entries, callers>>

(* SourceRegistry.get(name): UnknownSourceError for a name not in _sources; *)
(* the instance is made on the first get of the name and kept               *)
RegistryGet ==
    \E name \in RegistryNames :
        IF name \notin DOMAIN registry.sources
        THEN /\ ret' = [op |-> "registry_get", name |-> name,
                        outcome |-> "UnknownSourceError",
                        instance |-> [class |-> None, id |-> 0]]
             /\ UNCHANGED <<registry, enabled, conn, cache_entries, callers>>
        ELSE LET made == IF name \notin DOMAIN registry.instances
                         THEN dict_put(registry.instances, name,
                                       Instantiate(registry.sources[name],
                                                   registry.instances))
                         ELSE registry.instances
             IN  /\ registry' = [registry EXCEPT !.instances = made]
                 /\ ret' = [op |-> "registry_get", name |-> name, outcome |-> "ok",
                            instance |-> made[name]]
                 /\ UNCHANGED <<enabled, conn, cache_entries, callers>>

NextRegistry == Register \/ RegistryGet

SpecRegistry == Init /\ [][NextRegistry]_vars

(* C33: get(name) raises UnknownSourceError when no class was registered   *)
(* under name, and otherwise returns an instance of the class registered   *)
(* under name last.                                                        *)
C33_GetReturnsLatestClass ==
    ret.op = "registry_get" =>
        IF ret.name \in DOMAIN registry.sources
        THEN ret.outcome = "ok" /\ ret.instance.class = registry.sources[ret.name]
        ELSE ret.outcome = "UnknownSourceError"

(* two gets of a name with no call between them return the same instance,  *)
(* and a name never registered raises                                     *)
C33_RepeatedGetSameInstance ==
    [][(ret.op = "registry_get" /\ ret'.op = "registry_get" /\ ret'.name = ret.name)
       => ret'.instance = ret.instance]_vars


(* ------------------------------------------------------------------ *)
(* The listing of the cache and the stored payloads                    *)
(* ------------------------------------------------------------------ *)

(* what a get with exactly the key and range of row r can return *)
GetOfKey(r) ==
    get(cache_entries, r.source, r.symbol, r.field, r.path, r.start_date, r.end_date)

(* C34: the keys list_cached_symbols enumerates are the keys that have a   *)
(* stored payload: every row of cache_entries has its payload, and a get   *)
(* with exactly its key and range is not absent.                           *)
C34_ListedKeysHavePayload ==
    \A key \in list_cached_symbols(cache_entries) :
        \E r \in cache_entries :
            /\ SameKey(r, key)
            /\ HasData(r)
            /\ NoFrame \notin GetOfKey(r)

(* with a storage that never fails every listed key has its payload, and   *)
(* the get with its key and range is not absent when no other record of    *)
(* the series contains the range                                           *)
C34_ListedKeysHavePayloadNoFault ==
    \A r \in cache_entries :
        /\ HasData(r)
        /\ (\A o \in cache_entries : (SameSeries(o, r) /\ Contains(o, r)) => o = r)
              => NoFrame \notin GetOfKey(r)


(* ------------------------------------------------------------------ *)
(* Client.get: the range a fetched column is cached under              *)
(* ------------------------------------------------------------------ *)

ShortNameLists == {<<"spx">>, <<"gdp">>}

(* the response has a row on every day of the range, or on its first day   *)
(* only                                                                    *)
ShortStyles == {"native", "short"}

ClientGetShort ==
    ClientGetWith(ShortNameLists, ClientRanges, {<<TRUE, FALSE>>}, ShortStyles)

NextShort == ClientGetShort \/ ClientClearCache

SpecShort == Init /\ [][NextShort]_vars

(* the step is a caching get of one name that fetched and resolved it,     *)
(* followed by a caching get of the name over a range inside the first     *)
FetchThenGetInside ==
    /\ CachingCall(ret) /\ ret.outcome = "ok"
    /\ Len(ret.names) = 1 /\ ret.names[1] \in FetchedResolved(ret)
    /\ CachingCall(ret') /\ ret'.names = ret.names
    /\ ret.start_date <= ret'.start_date /\ ret'.end_date <= ret.end_date

(* the fetched column lies under the requested range, whatever rows it     *)
(* has, and the second get is answered from the cache                      *)
StoredUnderRangeAndServed ==
    /\ \E r \in cache_entries :
          /\ SameSeries(r, CatalogGet(ret.names[1]))
          /\ r.start_date = ret.start_date /\ r.end_date = ret.end_date
          /\ read_parquet(r.data).index = ret.calls[1].response.index
    /\ ret'.calls = <<>>
    /\ ret'.outcome = "ok"

(* C35: a fetched column is written under the requested range, not under   *)
(* the range of its rows, and a later get over a range inside it is served *)
(* from the cache without a call of the source, also when the record has   *)
(* no row in that range.                                                   *)
C35_CachedUnderRequestedRange ==
    [][FetchThenGetInside => StoredUnderRangeAndServed]_vars

(* the same for the series whose index is timezone-naive *)
C35_CachedUnderRequestedRangeNaive ==
    [][(FetchThenGetInside /\ SourceTz(CatalogGet(ret.names[1]).source) = "naive")
       => StoredUnderRangeAndServed]_vars

(* a get answered from the cache with a table that has no row *)
C35_EmptyHit ==
    /\ ret.op = "client_get" /\ ret.outcome = "ok"
    /\ ret.hits # {} /\ ret.calls = <<>>
    /\ ret.result.index = {}


(* ------------------------------------------------------------------ *)
(* Client.get: the order of the provider batches                       *)
(* ------------------------------------------------------------------ *)

(* the provider names as strings compare *)
AscendingProviders == <<"bloomberg", "gsquant", "localfile", "macrobond">>

ProviderRank(s) == CHOOSE i \in DOMAIN AscendingProviders : AscendingProviders[i] = s

(* the names of batch k of the call whose column was written to the cache  *)
Written(c, k) ==
    {c.calls[k].names[i] : i \in {i \in DOMAIN c.calls[k].picked :
                                    /\ c.calls[k].picked[i] # None
                                    /\ c.use_cache
                                    /\ ~(c.unified /\ c.calls[k].source = "macrobond")}}

(* C36: the batches of a get are fetched in ascending order of the         *)
(* provider name; when a fetch raises the get returns no table, the batch  *)
(* that raised is the last one fetched, and the columns of the batches     *)
(* before it are in the cache under the requested range.                   *)
C36_BatchesInOrderWritesKept ==
    ret.op = "client_get" =>
        /\ \A k, l \in DOMAIN ret.calls :
              k < l => ProviderRank(ret.calls[k].source) < ProviderRank(ret.calls[l].source)
        /\ \A k \in DOMAIN ret.calls :
              ret.calls[k].response.kind = "raise" => k = Len(ret.calls)
        /\ ret.outcome = "FetchError" =>
              /\ ret.result = NoFrame
              /\ ret.calls[Len(ret.calls)].response.kind = "raise"
              /\ \A k \in 1..(Len(ret.calls) - 1) :
                    \A n \in Written(ret, k) :
                        \E r \in cache_entries :
                            /\ SameSeries(r, CatalogGet(n))
                            /\ r.start_date = ret.start_date
                            /\ r.end_date = ret.end_date
                            /\ read_parquet(r.data).index = ret.calls[k].response.index

(* a get of two providers in which the second fetch raised after the       *)
(* column of the first was written                                         *)
C36_Witness ==
    /\ ret.op = "client_get" /\ ret.outcome = "FetchError"
    /\ ret.names = <<"gdp", "spx">>
    /\ Len(ret.calls) = 2
    /\ ret.calls[1].source = "bloomberg"
    /\ Written(ret, 1) = {"spx"}
    /\ ret.hits = {}


(* ------------------------------------------------------------------ *)
(* Client.get: the case-insensitive step of the column fallback        *)
(* ------------------------------------------------------------------ *)

(* request i of batch k of the call asked for a field and the response     *)
(* holds its symbol::field name in another letter case, and no column that *)
(* is the bare symbol in any case                                          *)
CompositeInOtherCase(c, k, i) ==
    LET req == c.calls[k].requests[i]
        cols == ColumnNames(c.calls[k].response)
        composite == req.symbol \o "::" \o req.field
    IN  /\ c.calls[k].response.kind = "DataFrame"
        /\ req.field # None
        /\ \E col \in cols : col # composite /\ str_lower(col) = str_lower(composite)
        /\ composite \notin cols
        /\ \A col \in cols : str_lower(col) # str_lower(req.symbol)

(* C37: a returned column that differs from symbol::field only in letter   *)
(* case does not resolve the request: the name gets no column and is not   *)
(* in the returned table.                                                  *)
C37_CompositeCaseNotResolved ==
    ret.op = "client_get" =>
        \A k \in DOMAIN ret.calls :
            \A i \in DOMAIN ret.calls[k].requests :
                CompositeInOtherCase(ret, k, i) =>
                    /\ ret.calls[k].picked[i] = None
                    /\ ret.outcome = "ok" =>
                          \A j \in DOMAIN ret.result.columns :
                              ret.result.columns[j].name # ret.calls[k].names[i]

(* a get of spx and gdp in which Bloomberg answered "spx index::PX_LAST":  *)
(* the table is returned without spx                                       *)
C37_Witness ==
    /\ ret.op = "client_get" /\ ret.outcome = "ok"
    /\ \E k \in DOMAIN ret.calls :
          /\ CompositeInOtherCase(ret, k, 1)
          /\ ret.calls[k].names[1] = "spx"
          /\ ret.calls[k].picked[1] = None
    /\ \E j \in DOMAIN ret.result.columns : ret.result.columns[j].name = "gdp"
    /\ \A j \in DOMAIN ret.result.columns : ret.result.columns[j].name # "spx"

====
